---- MODULE Spec2Model ----
(***************************************************************************)
(* Run & Enrichment Reconciliation Engine of the Scout lead module         *)
(* (backend/src/index.js).                                                 *)
(*                                                                         *)
(* The document store and the discovery provider (Exa Websets) are         *)
(* external collaborators.  The store is modelled by its documented        *)
(* primitives: get, create, update (the given top-level fields replace the *)
(* stored ones, every other field is kept), delete and a full scan.  Run   *)
(* ids are `run_<Date.now()>`, so a run's id order is its createdAt order: *)
(* a run is identified by its position in the sequence `runs`.  Bulk scans *)
(* are taken to stay below their fetch cap (500 documents or more).        *)
(***************************************************************************)
EXTENDS Integers, Sequences, FiniteSets, TLC

\* ---------------------------------------------------------------- bounds
\* Spec: every operation, on a short horizon
MaxRuns == 2        \* runs (and therefore provider sessions) ever created
MaxItems == 1       \* entities the provider ever discovers
MaxJobs == 1        \* enrichment jobs ever submitted
MaxVersion == 4     \* change-version counter: bounds the number of writes
MaxCount == 2       \* largest value of a blindly incremented counter
\* SpecEnrich: one run through discovery and enrichment, on a longer horizon
EnrichRuns == 1
EnrichItems == 2
EnrichJobs == 1
EnrichVersion == 6
\* SpecPoll: one job polled by overlapping job-status requests
MaxPolls == 2       \* job-status requests ever started
PollRuns == 1
PollItems == 1
PollJobs == 1
PollVersion == 5

MainBounds == [runs |-> MaxRuns, items |-> MaxItems, jobs |-> MaxJobs,
               version |-> MaxVersion, count |-> MaxCount]
EnrichBounds == [runs |-> EnrichRuns, items |-> EnrichItems, jobs |-> EnrichJobs,
                 version |-> EnrichVersion, count |-> MaxCount]

MaxFields == 2      \* longest field list of a request or of a leadset
MaxFeedRuns == 3    \* run documents in a scan the feed is rebuilt from
MaxCreatedAt == 2   \* distinct creation instants of those runs

PollBounds == [runs |-> PollRuns, items |-> PollItems, jobs |-> PollJobs,
               version |-> PollVersion, count |-> MaxCount]

LeadsetIds == {"L1"}

\* ------------------------------------------------------- field taxonomy
\* The keys of ENRICHMENT_FIELDS in the order of the object literal.
ENRICHMENT_FIELD_KEYS ==
    <<"email", "phone", "linkedinUrl", "primaryContactChannel", "leadType",
      "geoLocation", "employeeCount", "buyingIntent", "buyingIntentReason",
      "partnershipIntentLevel", "partnershipIntentReason", "audienceOverlapScore",
      "audienceOverlapReason", "estimatedReachBand", "roleSeniorityBand",
      "investorIntentLevel", "investorIntentReason", "categoryFitScore",
      "categoryFitReason">>

ENRICHMENT_FIELDS == {ENRICHMENT_FIELD_KEYS[i] : i \in DOMAIN ENRICHMENT_FIELD_KEYS}

\* the three fields the enrichment webhook picks by output format
ContactFields == {"email", "phone", "linkedinUrl"}

DEFAULT_ENRICHMENT_FIELDS == <<"email", "phone">>

\* leadset.enrichment_fields names -> taxonomy keys
LEADSET_ENRICHMENT_FIELD_MAP ==
    [contact_email |-> "email", contact_phone |-> "phone",
     has_linkedin_messaging |-> "linkedinUrl", linkedin_url |-> "linkedinUrl",
     primary_contact_channel |-> "primaryContactChannel",
     lead_type |-> "leadType", geo_location |-> "geoLocation",
     company_size_band |-> "employeeCount",
     buying_intent_level |-> "buyingIntent",
     buying_intent_reason |-> "buyingIntentReason",
     partnership_intent_level |-> "partnershipIntentLevel",
     partnership_intent_reason |-> "partnershipIntentReason",
     audience_overlap_score |-> "audienceOverlapScore",
     audience_overlap_reason |-> "audienceOverlapReason",
     estimated_reach_band |-> "estimatedReachBand",
     role_seniority_band |-> "roleSeniorityBand",
     investor_intent_level |-> "investorIntentLevel",
     investor_intent_reason |-> "investorIntentReason",
     category_fit_score |-> "categoryFitScore",
     category_fit_reason |-> "categoryFitReason"]

\* A JSON value that should be a list: an array with its elements, or
\* something that is not an array (absent, a string, an object).
Arr(elems) == [isArray |-> TRUE, elems |-> elems]
NotAnArray == [isArray |-> FALSE, elems |-> <<>>]

\* the enrichment_fields the seeded leadsets carry
enrichment_fields ==
    [l \in LeadsetIds |-> Arr(<<"contact_email", "contact_phone", "linkedin_url">>)]

SeqsUpTo(T, n) == UNION {[1..k -> T] : k \in 0..n}

\* what a request's field list is made of: taxonomy keys, a key with
\* blanks around it, a blank string, a key the taxonomy does not have
FieldTokens == {"email", "phone", "linkedinUrl", "leadType", " email ", "  ", "bogus"}

\* every req.body.fields: no array, or a list of at most MaxFields tokens
RequestInputs == {NotAnArray} \cup {Arr(q) : q \in SeqsUpTo(FieldTokens, MaxFields)}

\* the field lists a client asks for
RequestChoices ==
    {Arr(<<"email">>), Arr(<<"phone">>), Arr(<<"email", "linkedinUrl">>),
     Arr(<<"bogus", "phone">>)}

\* A provider result is a found value or null (nothing found).
Found == "v"
Null == "null"
NotFound == "Not found"

RunModes == {"new", "extend", "replace"}
\* statuses the provider reports for a session
ProviderStatuses == {"running", "idle", "paused"}

VARIABLES
    leadsets,   \* store: leadset id -> [status, websetId]
    runs,       \* store: sequence of Run documents (index = run id)
    items,      \* store: item id -> Item document, for the stored ids
    jobs,       \* store: sequence of EnrichmentJob documents
    version,    \* store: docStatus/status.version
    feed,       \* store: leadsetFeed/global
    websets,    \* provider: sequence of sessions (index = session id)
    pitems,     \* provider: item id -> [w, res], for the discovered ids
    penr,       \* provider: sequence of enrichment requests
    resp,       \* the response of the last request
    procs       \* handler invocations suspended at an await

vars == <<leadsets, runs, items, jobs, version, feed, websets, pitems, penr, resp, procs>>

Store == [leadsets |-> leadsets, runs |-> runs, items |-> items, jobs |-> jobs,
          version |-> version, feed |-> feed]
Prov == [websets |-> websets, pitems |-> pitems, penr |-> penr]

\* ---------------------------------------------------------------- helpers
Max(S) == CHOOSE x \in S : \A y \in S : y <= x
Min(S) == CHOOSE x \in S : \A y \in S : x <= y

\* {...a, ...b}: object spread, b's keys win
Spread(a, b) ==
    [k \in (DOMAIN a) \cup (DOMAIN b) |-> IF k \in DOMAIN b THEN b[k] ELSE a[k]]

\* a document written under key k (create, or update of every field)
Put(f, k, doc) == [j \in (DOMAIN f) \cup {k} |-> IF j = k THEN doc ELSE f[j]]

\* sdk.deleteFirebaseData for a set of keys
DeleteKeys(f, K) == [j \in (DOMAIN f) \ K |-> f[j]]

EmptyMap == [k \in {} |-> Null]

Resp(op, code, w, r, n) == [op |-> op, code |-> code, websetId |-> w, runId |-> r, n |-> n]

\* what the state keeps of a response: the operation and the status code
Last(rsp) == [op |-> rsp.op, code |-> rsp.code]

Out(S, P, rsp) == [S |-> S, P |-> P, resp |-> rsp]

\* runs of a leadset sorted by createdAt descending, first element (0: none)
LatestRun(rs, l) ==
    LET mine == {r \in 1..Len(rs) : rs[r].leadsetId = l}
    IN IF mine = {} THEN 0 ELSE Max(mine)

\* the lookup that falls back to the newest run when no run refers to the
\* session
FirstRunOrNewest(rs, w) ==
    LET mine == {r \in 1..Len(rs) : rs[r].websetId = w}
    IN IF mine = {} THEN Len(rs) ELSE Min(mine)

\* allRuns.filter(r => r.websetId === websetId)[0]: the first run of the
\* scan that refers to the session; the store scans documents in id order
FirstRunOfWebset(rs, w) ==
    LET mine == {r \in 1..Len(rs) : rs[r].websetId = w}
    IN IF mine = {} THEN 0 ELSE Min(mine)

ItemsOfRun(its, r) == {i \in DOMAIN its : its[i].runId = r}

\* ------------------------------------------------------------ feed, docStatus
\* rebuildLeadsetFeed: the snapshot is recomputed from a full scan and
\* replaces the single feed document
rebuildLeadsetFeed(S) ==
    [S EXCEPT !.feed =
        [leadsets |-> S.leadsets,
         run |-> [l \in DOMAIN S.leadsets |->
                    IF LatestRun(S.runs, l) = 0 THEN <<>>
                    ELSE <<S.runs[LatestRun(S.runs, l)]>>],
         items |-> S.items,
         counts |-> [leadsets |-> Cardinality(DOMAIN S.leadsets),
                     runs |-> Len(S.runs),
                     items |-> Cardinality(DOMAIN S.items)]]]

\* updateDocStatus: version: increment(1)
updateDocStatus(S) == [S EXCEPT !.version = @ + 1]

\* ------------------------------------------------------------ provider
\* listWebsetItems, all pages: the ids of the session's items
listWebsetItems(P, w) == {i \in DOMAIN P.pitems : P.pitems[i].w = w}

\* the session answers requests (it exists and was not deleted)
WebsetLive(P, w) == w \in 1..Len(P.websets) /\ ~P.websets[w].deleted

\* exaItem.enrichments: one entry per enrichment request of the item's
\* session, in request order; a stale payload (an item as it was when it
\* was discovered) has none
Enrichments(P, i, stale) ==
    IF stale THEN {} ELSE {k \in 1..Len(P.penr) : P.penr[k].w = P.pitems[i].w}

\* enrichment.result of entry k for item i: null until the request is
\* completed, and null when the provider found nothing
EntryResult(P, i, k) == IF P.penr[k].done THEN P.pitems[i].res ELSE Null

\* ---- value normalisation
\* the substring tests of normalizeBuyingIntent on the lower-cased text
\* includes('high')
HasHigh(str) ==
    str \in {"High", "high", "High: strong partnership fit", "medium to high",
             "highly unlikely, low"}
\* includes('medium')
HasMedium(str) == str \in {"Medium interest", "medium to high"}
\* includes('low')
HasLow(str) ==
    str \in {"low", "highly unlikely, low", "ready but low budget", "slowly considering"}
\* includes actively / strong / ready / seeking
HasUrgency(str) ==
    str \in {"actively evaluating vendors right now", "strong fit",
             "ready but low budget", "High: strong partnership fit"}
\* includes evaluating / considering / exploring
HasExploration(str) ==
    str \in {"actively evaluating vendors right now", "considering options",
             "slowly considering"}

normalizeBuyingIntent(value) ==
    IF value = "" THEN Null
    ELSE IF HasHigh(value) THEN "high"
    ELSE IF HasMedium(value) THEN "medium"
    ELSE IF HasLow(value) THEN "low"
    ELSE IF HasUrgency(value) THEN "high"
    ELSE IF HasExploration(value) THEN "medium"
    ELSE "low"

\* the head counts written as numerals: the bucket boundaries, their
\* neighbours and some values between
EmployeeCounts ==
    {0, 1, 7, 10, 11, 37, 50, 51, 200, 201, 500, 501, 1000, 1001, 5000, 5001,
     10000, 10001, 25000, 25001, 100000}

NoInteger == 0 - 1

\* /^\d+-\d+$/ on the trimmed value
IsRangeForm(str) == str \in {"501-1000", "11-50", "2024-01", "415-5550100", "1-10"}

\* parseInt of the first run of digits in the value (NoInteger: no digit)
FirstInteger(str) ==
    IF \E n \in EmployeeCounts : ToString(n) = str
    THEN CHOOSE n \in EmployeeCounts : ToString(n) = str
    ELSE CASE str = "about 37 people" -> 37
           [] str = "1,200 employees" -> 1
           [] str = "10-50 employees" -> 10
           [] str = "25001+" -> 25001
           [] str = "over 9000 staff" -> 9000
           [] str = "+1 415 555 0100" -> 1
           [] str = "501-1000" -> 501
           [] str = "11-50" -> 11
           [] str = "1-10" -> 1
           [] str = "2024-01" -> 2024
           [] str = "415-5550100" -> 415
           [] OTHER -> NoInteger

\* the bucket of a head count, with the second boundary exclusive
BucketOffByOne(num) ==
    IF num <= 10 THEN "1-10"
    ELSE IF num < 50 THEN "11-50"
    ELSE IF num <= 200 THEN "51-200"
    ELSE IF num <= 500 THEN "201-500"
    ELSE IF num <= 1000 THEN "501-1000"
    ELSE IF num <= 5000 THEN "1001-5000"
    ELSE IF num <= 10000 THEN "5001-10000"
    ELSE IF num <= 25000 THEN "10001-25000"
    ELSE "25001+"

\* the chain of comparisons that turns a head count into a range
Bucket(num) ==
    IF num <= 10 THEN "1-10"
    ELSE IF num <= 50 THEN "11-50"
    ELSE IF num <= 200 THEN "51-200"
    ELSE IF num <= 500 THEN "201-500"
    ELSE IF num <= 1000 THEN "501-1000"
    ELSE IF num <= 5000 THEN "1001-5000"
    ELSE IF num <= 10000 THEN "5001-10000"
    ELSE IF num <= 25000 THEN "10001-25000"
    ELSE "25001+"

normalizeEmployeeCount(value) ==
    IF value = "" THEN Null
    ELSE IF IsRangeForm(value) THEN value
    ELSE IF FirstInteger(value) = NoInteger THEN Null
    ELSE Bucket(FirstInteger(value))

\* the "not found" patterns of extractEnrichmentValue
IsNotFoundText(str) == str \in {"Not found", "N/A", "unknown", "No data", "No email found"}

\* extractEnrichmentValue(enrichment, fieldKey), given enrichment.result's
\* first non-blank string (null: none): the "Not found" sentinel, the
\* normalised value of the two normalised fields, else the raw value
extractEnrichmentValue(result, fieldKey) ==
    IF result = Null \/ result = "" THEN NotFound
    ELSE IF IsNotFoundText(result) THEN NotFound
    ELSE IF fieldKey = "buyingIntent" THEN normalizeBuyingIntent(result)
    ELSE IF fieldKey = "employeeCount" THEN normalizeEmployeeCount(result)
    ELSE result

\* transformExaItem: the Item document of a provider item.  Of the
\* normalised properties only the enrichment submap depends on anything but
\* the item itself.
transformExaItem(P, i, runId, leadsetId, stale) ==
    LET es == Enrichments(P, i, stale)
        withResult == {k \in es : P.penr[k].done /\ EntryResult(P, i, k) # Null}
        keys == {P.penr[k].field : k \in withResult}
    IN [runId |-> runId,
        leadsetId |-> leadsetId,
        est |-> IF es # {} THEN "completed" ELSE "none",
        ef |-> [f \in keys |-> extractEnrichmentValue(P.pitems[i].res, f)]]

\* items.map(item => create(item).catch(() => update(item))): every field
\* of the stored document is replaced by the transformed item's
UpsertItems(P, its, I, runId, leadsetId, stale) ==
    [j \in (DOMAIN its) \cup I |->
        IF j \in I THEN transformExaItem(P, j, runId, leadsetId, stale) ELSE its[j]]

\* ------------------------------------------------------------ startRun
\* the conflict test with the force flag read the wrong way round
IsConflictForced(existingWebsetId, mode, force) ==
    existingWebsetId # 0 /\ mode = "new" /\ force

\* existingWebsetId && mode === 'new' && !force
IsConflict(existingWebsetId, mode, force) ==
    existingWebsetId # 0 /\ mode = "new" /\ ~force

\* the extend test that never asks for a session
NeedsSessionNever(mode, existingWebsetId) == FALSE

\* mode === 'extend' with !existingWebsetId
NeedsSession(mode, existingWebsetId) == mode = "extend" /\ existingWebsetId = 0

\* the run document with the provider's session status copied into it
NewRunProviderStatus(l, w, mode, searchId) ==
    [leadsetId |-> l, websetId |-> w, status |-> "pending", mode |-> mode,
     searchId |-> searchId, found |-> 0, enriched |-> 0]

\* runDoc: status 'running', the mode, the search id (null unless the run
\* extends a session) and counters at zero
NewRun(l, w, mode, searchId) ==
    [leadsetId |-> l, websetId |-> w, status |-> "running", mode |-> mode,
     searchId |-> searchId, found |-> 0, enriched |-> 0]

\* POST /leadsets/:leadsetId/run.  delOk and callOk say whether the
\* provider's delete and create calls succeed.
StartRun(S, P, l, mode, force, delOk, callOk) ==
    IF l \notin DOMAIN S.leadsets
    THEN Out(S, P, Resp("startRun", 404, 0, 0, 0))
    ELSE
    LET latestRun == LatestRun(S.runs, l)
        existingWebsetId ==
            IF latestRun # 0 /\ S.runs[latestRun].websetId # 0
            THEN S.runs[latestRun].websetId ELSE S.leadsets[l].websetId
        itemCount == IF latestRun # 0
                     THEN Cardinality(ItemsOfRun(S.items, latestRun)) ELSE 0
        replacing == mode = "replace" /\ existingWebsetId # 0
        \* replace: delete the session (a failure is only logged), then the
        \* latest run's items
        P1 == IF replacing /\ delOk /\ existingWebsetId \in 1..Len(P.websets)
              THEN [P EXCEPT !.websets[existingWebsetId].deleted = TRUE]
              ELSE P
        S1 == IF replacing /\ latestRun # 0
              THEN [S EXCEPT !.items = DeleteKeys(@, ItemsOfRun(S.items, latestRun))]
              ELSE S
        \* extend: createWebsetSearch puts the session back to work
        runId == Len(S1.runs) + 1
        \* the id the provider gives the appended search
        searchId == IF mode = "extend" THEN runId ELSE 0
        P2 == IF mode = "extend"
              THEN [P1 EXCEPT !.websets[existingWebsetId].status = "running",
                              !.websets[existingWebsetId].searches = @ \cup {searchId}]
              ELSE [P1 EXCEPT !.websets = Append(@,
                        [status |-> "running", deleted |-> FALSE, idleSeen |-> FALSE,
                         canceled |-> {}, searches |-> {}])]
        targetWebsetId == IF mode = "extend" THEN existingWebsetId ELSE Len(P2.websets)
        runDoc == NewRun(l, targetWebsetId, mode, searchId)
        S2 == [S1 EXCEPT !.runs = Append(@, runDoc),
                         !.leadsets[l] = [status |-> "running", websetId |-> targetWebsetId]]
    IN IF IsConflict(existingWebsetId, mode, force)
       THEN Out(S, P, Resp("startRun", 409, existingWebsetId, latestRun, itemCount))
       ELSE IF NeedsSession(mode, existingWebsetId)
       THEN Out(S1, P1, Resp("startRun", 400, 0, 0, 0))
       ELSE IF ~callOk \/ (mode = "extend" /\ ~WebsetLive(P1, existingWebsetId))
       THEN Out(S1, P1, Resp("startRun", 500, 0, 0, 0))
       ELSE Out(rebuildLeadsetFeed(updateDocStatus(S2)), P2,
                Resp("startRun", 201, targetWebsetId, runId, 0))

\* ------------------------------------------------------------ poll-sync
\* the found counter added to instead of set
SyncedFoundAdded(found, n) == found + n

\* counters: { ...run.counters, found: items.length }
SyncedFound(found, n) == n

\* sdk.updateFirebaseData('leadsets', l, { status })
SetLeadsetStatus(S, l, st) ==
    IF l \in DOMAIN S.leadsets THEN [S EXCEPT !.leadsets[l].status = st] ELSE S

\* the status mapping with the completed status misspelt
NewStatusMisspelt(providerStatus) ==
    IF providerStatus = "idle" THEN "complete" ELSE providerStatus

\* webset.status === 'idle' ? 'completed' : webset.status
NewStatus(providerStatus) == IF providerStatus = "idle" THEN "completed" ELSE providerStatus

\* GET /leadsets/:leadsetId/runs/:runId/webset
PollSync(S, P, l, r) ==
    IF r \notin 1..Len(S.runs)
    THEN Out(S, P, Resp("pollSync", 404, 0, r, 0))
    ELSE
    LET run == S.runs[r]
        w == run.websetId
        I == listWebsetItems(P, w)
        n == Cardinality(I)
        newStatus == NewStatus(P.websets[w].status)
        S1 == [S EXCEPT !.runs[r].status = newStatus,
                        !.runs[r].found = SyncedFound(run.found, n)]
        S2 == IF n > 0
              THEN [S1 EXCEPT !.items = UpsertItems(P, @, I, r, l, FALSE)]
              ELSE S1
        S3 == IF newStatus \in {"completed", "idle"}
              THEN SetLeadsetStatus(S2, l, "idle") ELSE S2
    IN IF ~WebsetLive(P, w)
       THEN Out(S, P, Resp("pollSync", 500, w, r, 0))
       ELSE IF run.status # newStatus \/ run.found # n
       THEN Out(rebuildLeadsetFeed(updateDocStatus(S3)), P, Resp("pollSync", 200, w, r, n))
       ELSE Out(S, P, Resp("pollSync", 200, w, r, n))

\* ------------------------------------------------------------ sync-items
\* POST /leadsets/:leadsetId/sync-items?websetId=w  (w = 0: no websetId given)
SyncItems(S, P, l, w) ==
    LET found == {r \in 1..Len(S.runs) : S.runs[r].websetId = w /\ S.runs[r].leadsetId = l}
        \* a websetId without a run: a minimal run document is created
        S1 == IF w # 0 /\ found = {}
              THEN [S EXCEPT !.runs = Append(@,
                        [leadsetId |-> l, websetId |-> w, status |-> "completed",
                         mode |-> "manual", searchId |-> 0, found |-> 0, enriched |-> 0])]
              ELSE S
        r == IF w # 0
             THEN (IF found = {} THEN Len(S1.runs) ELSE Min(found))
             ELSE LatestRun(S.runs, l)
        websetId == IF w # 0 THEN w ELSE IF r # 0 THEN S.runs[r].websetId ELSE 0
        I == listWebsetItems(P, websetId)
        n == Cardinality(I)
        S2 == [S1 EXCEPT !.items = UpsertItems(P, @, I, r, l, FALSE),
                         !.runs[r].found = SyncedFound(S1.runs[r].found, n)]
    IN IF r = 0
       THEN Out(S, P, Resp("syncItems", 404, 0, 0, 0))
       ELSE IF websetId = 0
       THEN Out(S, P, Resp("syncItems", 400, 0, r, 0))
       ELSE IF ~WebsetLive(P, websetId)
       THEN Out(S1, P, Resp("syncItems", 500, websetId, r, 0))
       ELSE IF n > 0
       THEN Out(updateDocStatus(S2), P, Resp("syncItems", 200, websetId, r, n))
       ELSE Out(S1, P, Resp("syncItems", 200, websetId, r, 0))

\* ------------------------------------------------------------ cancel
\* the cancellation with the run's mode left out of the test
CancelCallsWholeSession(run) ==
    IF run.websetId # 0
    THEN {[kind |-> "webset", w |-> run.websetId, searchId |-> 0]}
    ELSE {}

\* the provider calls cancel makes for a run: cancelWebsetSearch for an
\* extend run that has a searchId and a websetId, else cancelWebset for a
\* run that has a websetId, else none
CancelCalls(run) ==
    IF run.mode = "extend" /\ run.searchId # 0 /\ run.websetId # 0
    THEN {[kind |-> "search", w |-> run.websetId, searchId |-> run.searchId]}
    ELSE IF run.websetId # 0
    THEN {[kind |-> "webset", w |-> run.websetId, searchId |-> 0]}
    ELSE {}

\* the provider's side of cancelWebset / cancelWebsetSearch: the session
\* records what was canceled, the work stops and the session goes idle
ProviderCancel(P, call) ==
    [P EXCEPT !.websets[call.w].status = "idle",
              !.websets[call.w].idleSeen = TRUE,
              !.websets[call.w].canceled = @ \cup {[kind |-> call.kind,
                                                    searchId |-> call.searchId]}]

\* the calls of a set made one after the other (cancel makes at most one)
RECURSIVE ProviderCancelAll(_, _)
ProviderCancelAll(P, calls) ==
    IF calls = {} THEN P
    ELSE LET c == CHOOSE x \in calls : TRUE
         IN ProviderCancelAll(IF WebsetLive(P, c.w) THEN ProviderCancel(P, c) ELSE P,
                              calls \ {c})

\* cancel made transactional: a failed provider call answers 500 and
\* nothing is written
CancelTransactional(S, P, l, r, callOk) ==
    IF r \notin 1..Len(S.runs)
    THEN Out(S, P, Resp("cancel", 404, 0, r, 0))
    ELSE IF ~callOk
    THEN Out(S, P, Resp("cancel", 500, S.runs[r].websetId, r, 0))
    ELSE Out(rebuildLeadsetFeed(updateDocStatus(
                SetLeadsetStatus([S EXCEPT !.runs[r].status = "canceled"], l, "idle"))),
             ProviderCancelAll(P, CancelCalls(S.runs[r])),
             Resp("cancel", 200, S.runs[r].websetId, r, 0))

\* POST /leadsets/:leadsetId/runs/:runId/cancel
Cancel(S, P, l, r, callOk) ==
    IF r \notin 1..Len(S.runs)
    THEN Out(S, P, Resp("cancel", 404, 0, r, 0))
    ELSE
    LET run == S.runs[r]
        w == run.websetId
        \* a call that fails is caught and logged
        P1 == IF callOk THEN ProviderCancelAll(P, CancelCalls(run)) ELSE P
        S1 == SetLeadsetStatus([S EXCEPT !.runs[r].status = "canceled"], l, "idle")
    IN Out(rebuildLeadsetFeed(updateDocStatus(S1)), P1, Resp("cancel", 200, w, r, 0))

\* ------------------------------------------------------------ enrich
Has(seq, x) == \E i \in 1..Len(seq) : seq[i] = x

Range(seq) == {seq[i] : i \in 1..Len(seq)}

\* Array.from(new Set(seq)): the first occurrence of each element, in order
RECURSIVE Unique(_)
Unique(seq) ==
    IF seq = <<>> THEN <<>>
    ELSE LET rest == Unique(SubSeq(seq, 1, Len(seq) - 1))
             last == seq[Len(seq)]
         IN IF Has(rest, last) THEN rest ELSE Append(rest, last)

\* String.prototype.trim on the strings a request carries
trim(str) ==
    CASE str = " email " -> "email"
      [] str = "  " -> ""
      [] OTHER -> str

\* getAllowedEnrichmentFieldsForLeadset, given leadset.enrichment_fields:
\* the names the map knows, as taxonomy keys, without repetition
getAllowedEnrichmentFieldsForLeadset(raw) ==
    LET rawFields == IF raw.isArray THEN raw.elems ELSE <<>>
        Known(name) == /\ name \in DOMAIN LEADSET_ENRICHMENT_FIELD_MAP
                       /\ LEADSET_ENRICHMENT_FIELD_MAP[name] \in ENRICHMENT_FIELDS
        known == SelectSeq(rawFields, Known)
    IN Unique([i \in 1..Len(known) |-> LEADSET_ENRICHMENT_FIELD_MAP[known[i]]])

\* normalizeRequestedFields with a list of allowed fields that restricts
\* even when it is empty
normalizeAlwaysRestricted(fieldsInput, allowed) ==
    LET hasExplicitRequest == fieldsInput.isArray /\ Len(fieldsInput.elems) > 0
        NonBlank(str) == str # ""
        cleanedRequested ==
            IF hasExplicitRequest
            THEN Unique(SelectSeq([i \in 1..Len(fieldsInput.elems) |->
                                      trim(fieldsInput.elems[i])], NonBlank))
            ELSE <<>>
        candidates == IF ~hasExplicitRequest /\ Len(allowed) > 0
                      THEN allowed ELSE cleanedRequested
        Valid(f) == f \in ENRICHMENT_FIELDS /\ Has(allowed, f)
        valid == SelectSeq(candidates, Valid)
        Allowed(f) == Has(allowed, f)
        intersectedDefault == SelectSeq(DEFAULT_ENRICHMENT_FIELDS, Allowed)
    IN IF Len(valid) > 0 THEN valid
       ELSE IF Len(allowed) > 0
       THEN IF Len(intersectedDefault) > 0 THEN intersectedDefault ELSE allowed
       ELSE DEFAULT_ENRICHMENT_FIELDS

\* normalizeRequestedFields(fieldsInput, allowed); allowed is the list
\* getAllowedEnrichmentFieldsForLeadset returned
normalizeRequestedFields(fieldsInput, allowed) ==
    LET hasExplicitRequest == fieldsInput.isArray /\ Len(fieldsInput.elems) > 0
        NonBlank(str) == str # ""
        cleanedRequested ==
            IF hasExplicitRequest
            THEN Unique(SelectSeq([i \in 1..Len(fieldsInput.elems) |->
                                      trim(fieldsInput.elems[i])], NonBlank))
            ELSE <<>>
        candidates == IF ~hasExplicitRequest /\ Len(allowed) > 0
                      THEN allowed ELSE cleanedRequested
        Valid(f) == /\ f \in ENRICHMENT_FIELDS
                    /\ (Len(allowed) = 0 \/ Has(allowed, f))
        valid == SelectSeq(candidates, Valid)
        Allowed(f) == Has(allowed, f)
        intersectedDefault == SelectSeq(DEFAULT_ENRICHMENT_FIELDS, Allowed)
    IN IF Len(valid) > 0 THEN valid
       ELSE IF Len(allowed) > 0
       THEN IF Len(intersectedDefault) > 0 THEN intersectedDefault ELSE allowed
       ELSE DEFAULT_ENRICHMENT_FIELDS

\* createEnrichment for each field of the list, in order
\* one provider request made for a whole field list
CreateEnrichmentsBatch(pe, w, fs) ==
    IF fs = <<>> THEN pe ELSE Append(pe, [w |-> w, field |-> Head(fs), done |-> FALSE])

RECURSIVE CreateEnrichments(_, _, _)
CreateEnrichments(pe, w, fs) ==
    IF fs = <<>> THEN pe
    ELSE CreateEnrichments(Append(pe, [w |-> w, field |-> Head(fs), done |-> FALSE]),
                           w, Tail(fs))

\* the item written when enrichment starts: an existing item keeps its
\* enrichment fields and gets status 'enriching'; a missing one is created
\* from the provider item with only the status
EnrichingItem(its, i, r, l) ==
    IF i \in DOMAIN its
    THEN [its[i] EXCEPT !.est = "enriching"]
    ELSE [runId |-> r, leadsetId |-> l, est |-> "enriching", ef |-> EmptyMap]

\* POST /leadsets/:leadsetId/runs/:runId/enrich with req.body.fields
RequestEnrichment(S, P, l, r, requestedFieldsInput, callOk) ==
    IF l \notin DOMAIN S.leadsets
    THEN Out(S, P, Resp("enrich", 404, 0, r, 0))
    ELSE
    LET allowedFromLeadset == getAllowedEnrichmentFieldsForLeadset(enrichment_fields[l])
        requestedFields == normalizeRequestedFields(requestedFieldsInput, allowedFromLeadset)
        invalidFields == {f \in Range(requestedFields) : f \notin ENRICHMENT_FIELDS}
        F == Range(requestedFields)
    IN
    IF invalidFields # {}
    THEN Out(S, P, Resp("enrich", 400, 0, r, 0))
    ELSE IF r \notin 1..Len(S.runs)
    THEN Out(S, P, Resp("enrich", 404, 0, r, 0))
    ELSE
    LET run == S.runs[r]
        w == run.websetId
        I == listWebsetItems(P, w)
        first == Len(P.penr) + 1
        P1 == [P EXCEPT !.penr = CreateEnrichments(@, w, requestedFields)]
        job == [runId |-> r, leadsetId |-> l, websetId |-> w, fields |-> F,
                requests |-> first..Len(P1.penr), status |-> "pending",
                enrichedCount |-> 0]
        S1 == [S EXCEPT
                !.jobs = Append(@, job),
                !.items = [j \in (DOMAIN @) \cup I |->
                             IF j \in I THEN EnrichingItem(S.items, j, r, l) ELSE @[j]],
                !.runs[r].status = "enriching",
                !.leadsets[l].status = "enriching"]
    IN IF w = 0
       THEN Out(S, P, Resp("enrich", 400, 0, r, 0))
       ELSE IF ~WebsetLive(P, w) \/ ~callOk
       THEN Out(S, P, Resp("enrich", 500, w, r, 0))
       ELSE Out(rebuildLeadsetFeed(updateDocStatus(S1)), P1,
                Resp("enrich", 202, w, r, Len(S1.jobs)))

\* ------------------------------------------------------------ resolution pass
\* fieldUpdates of one provider item: the loop over exaItem.enrichments.
\* A url-format result that is present is taken as the LinkedIn URL before
\* anything else; every other entry is resolved to its field, skipped when
\* the field was already matched or is not requested, and stored with its
\* extracted value.
FieldUpdates(P, i, requested) ==
    LET es == Enrichments(P, i, FALSE)
        entriesOf(f) == {k \in es : P.penr[k].field = f}
        linkedinFound == \E k \in entriesOf("linkedinUrl") : EntryResult(P, i, k) # Null
        keys == {f \in ENRICHMENT_FIELDS :
                    /\ entriesOf(f) # {}
                    /\ \/ f \in requested
                       \/ f = "linkedinUrl" /\ linkedinFound}
    IN [f \in keys |->
            IF f = "linkedinUrl" /\ linkedinFound THEN P.pitems[i].res
            ELSE extractEnrichmentValue(EntryResult(P, i, Min(entriesOf(f))), f)]

\* the per-item reconciliation over the provider's items I against the
\* scanned store items fb (those of run r and leadset l); createRejects says
\* whether create of an existing key is rejected by the store
ReconcileItem(P, its, fb, i, r, l, requested, createRejects) ==
    LET fu == FieldUpdates(P, i, requested)
    IN IF DOMAIN fu = {} THEN its
       ELSE IF i \in DOMAIN fb
       THEN IF i \in DOMAIN its
            THEN Put(its, i, [its[i] EXCEPT !.est = "done", !.ef = Spread(fb[i].ef, fu)])
            ELSE its
       ELSE IF i \in DOMAIN its /\ createRejects THEN its
       ELSE Put(its, i, [runId |-> r, leadsetId |-> l, est |-> "done", ef |-> fu])

\* did the pass count item i as enriched
Reconciled(P, its, fb, i, requested, createRejects) ==
    /\ DOMAIN FieldUpdates(P, i, requested) # {}
    /\ IF i \in DOMAIN fb THEN i \in DOMAIN its
       ELSE ~(i \in DOMAIN its /\ createRejects)

RECURSIVE ReconcileAll(_, _, _, _, _, _, _, _)
ReconcileAll(P, its, fb, I, r, l, requested, createRejects) ==
    IF I = {} THEN its
    ELSE LET i == Min(I)
         IN ReconcileAll(P, ReconcileItem(P, its, fb, i, r, l, requested, createRejects),
                         fb, I \ {i}, r, l, requested, createRejects)

\* getEnrichment for each request: 'completed' or 'pending' (also when the
\* call fails)
OverallStatus(P, job) ==
    IF \A k \in job.requests : P.penr[k].done /\ WebsetLive(P, job.websetId)
    THEN "completed" ELSE "pending"

\* the scan filtered to doc.runId === runId && doc.leadsetId === leadsetId
ItemsOfRunAndLeadset(its, r, l) ==
    LET K == {i \in DOMAIN its : its[i].runId = r /\ its[i].leadsetId = l}
    IN [i \in K |-> its[i]]

\* GET /leadsets/:leadsetId/runs/:runId/enrichment/:enrichmentId, run to
\* completion without another request in between
EnrichmentStatus(S, P, l, r, e, createRejects) ==
    IF e \notin 1..Len(S.jobs)
    THEN Out(S, P, Resp("enrichmentStatus", 404, 0, r, e))
    ELSE IF r \notin 1..Len(S.runs)
    THEN Out(S, P, Resp("enrichmentStatus", 404, 0, r, e))
    ELSE
    LET job == S.jobs[e]
        run == S.runs[r]
        w == job.websetId
        requested == {P.penr[k].field : k \in job.requests}
        I == listWebsetItems(P, w)
        fb == ItemsOfRunAndLeadset(S.items, r, l)
        newItems == ReconcileAll(P, S.items, fb, I, r, l, requested, createRejects)
        enrichedCount == Cardinality({i \in I :
                            Reconciled(P, S.items, fb, i, requested, createRejects)})
        S1 == [S EXCEPT
                !.items = newItems,
                !.jobs[e].status = "completed",
                !.jobs[e].enrichedCount = enrichedCount,
                !.runs[r].status = "idle",
                !.runs[r].enriched = run.enriched + enrichedCount]
        S2 == SetLeadsetStatus(S1, l, "idle")
    IN IF job.status \in {"completed", "processing"} \/ OverallStatus(P, job) # "completed"
       THEN Out(S, P, Resp("enrichmentStatus", 200, w, r, e))
       ELSE Out(updateDocStatus(rebuildLeadsetFeed(S2)), P,
                Resp("enrichmentStatus", 200, w, r, e))

\* ------------------------------------------------------------ webhooks
\* POST /webhooks/exa, type webset.items.created, for session w with the
\* items I in the payload (stale: as they were when discovered)
WebhookItemsCreated(S, P, w, I, stale) ==
    LET r == FirstRunOfWebset(S.runs, w)
        run == S.runs[r]
        S1 == [S EXCEPT
                !.items = UpsertItems(P, @, I, r, run.leadsetId, stale),
                !.runs[r].found = run.found + Cardinality(I)]
    IN IF r = 0
       THEN Out(S, P, Resp("webhook", 200, w, 0, 0))
       ELSE Out(rebuildLeadsetFeed(updateDocStatus(S1)), P, Resp("webhook", 200, w, r, 0))

\* type webset.idle
WebhookIdle(S, P, w) ==
    LET r == FirstRunOfWebset(S.runs, w)
        S1 == SetLeadsetStatus([S EXCEPT !.runs[r].status = "completed"],
                               S.runs[r].leadsetId, "idle")
    IN IF r = 0
       THEN Out(S, P, Resp("webhook", 200, w, 0, 0))
       ELSE Out(rebuildLeadsetFeed(updateDocStatus(S1)), P, Resp("webhook", 200, w, r, 0))

\* the email / phone / linkedinUrl picked from an item's enrichments by
\* their format: the result of an entry that has one, else null
ByFormat(P, i, f) ==
    IF \E k \in Enrichments(P, i, FALSE) : P.penr[k].field = f /\ EntryResult(P, i, k) # Null
    THEN P.pitems[i].res ELSE Null

HasContact(P, i) == \E f \in ContactFields : ByFormat(P, i, f) # Null

\* type webset.enrichment.completed with the session's items in the payload.
\* The items are written in order; the update of an item that is not in the
\* store throws, which ends the handler.
WebhookEnrichmentCompleted(S, P, w) ==
    LET r == FirstRunOfWebset(S.runs, w)
        run == S.runs[r]
        toWrite == {i \in listWebsetItems(P, w) : HasContact(P, i)}
        missing == toWrite \ DOMAIN S.items
        written == IF missing = {} THEN toWrite ELSE {i \in toWrite : i < Min(missing)}
        newItems == [j \in DOMAIN S.items |->
                        IF j \in written
                        THEN [S.items[j] EXCEPT
                                !.est = "done",
                                !.ef = [f \in ContactFields |-> ByFormat(P, j, f)]]
                        ELSE S.items[j]]
        S1 == [S EXCEPT !.items = newItems]
        S2 == [S1 EXCEPT !.runs[r].status = "idle",
                         !.runs[r].enriched = run.enriched + Cardinality(written)]
    IN IF r = 0
       THEN Out(S, P, Resp("webhook", 200, w, 0, 0))
       ELSE IF missing # {}
       THEN Out(S1, P, Resp("webhook", 200, w, r, 0))
       ELSE Out(rebuildLeadsetFeed(updateDocStatus(S2)), P, Resp("webhook", 200, w, r, 0))

\* ------------------------------------------------------------ signature
\* Texts are sequences of characters; buffers are sequences of bytes.
HexChars == <<"0", "1", "2", "3", "4", "5", "6", "7", "8", "9",
              "a", "b", "c", "d", "e", "f">>

HexValue(c) == (CHOOSE i \in 1..Len(HexChars) : HexChars[i] = c) - 1

\* Buffer.from(text): the bytes of a hex text, one per character ('0' is
\* 48, 'a' is 97)
BufferFromText(text) ==
    [i \in 1..Len(text) |->
        IF HexValue(text[i]) < 10 THEN 48 + HexValue(text[i]) ELSE 87 + HexValue(text[i])]

\* Buffer.from(text, 'hex'): one byte per pair of hex digits, up to the
\* first pair that is not one
RECURSIVE BufferFromHex(_)
BufferFromHex(text) ==
    IF Len(text) < 2 \/ \E i \in 1..2 : \A j \in 1..Len(HexChars) : HexChars[j] # text[i]
    THEN <<>>
    ELSE <<16 * HexValue(text[1]) + HexValue(text[2])>>
            \o BufferFromHex(SubSeq(text, 3, Len(text)))

\* process.env.EXA_WEBHOOK_SECRET: unset, or a secret
NoSecret == "unset"
Secrets == {NoSecret, "s1"}

\* the raw request bodies
RawBodies == {"b1", "b2"}

\* crypto.createHmac('sha256', secret).update(rawBody).digest('hex'), with
\* digests of two bytes
createHmacHex(secret, rawBody) ==
    IF rawBody = "b1" THEN <<"3", "a", "7", "f">> ELSE <<"c", "0", "0", "1">>

\* the x-exa-signature header: absent (signature || '' is the empty text)
\* or a text
NoSignature == <<>>

\* verifyExaSignature; crypto.timingSafeEqual throws on buffers of
\* different lengths, which the catch turns into false
verifyExaSignature(secret, rawBody, signature) ==
    IF secret = NoSecret THEN TRUE
    ELSE LET digest == createHmacHex(secret, rawBody)
             a == BufferFromText(digest)
             b == BufferFromHex(signature)
         IN IF Len(a) # Len(b) THEN FALSE ELSE a = b

EventTypes == {"webset.items.created", "webset.idle", "webset.enrichment.completed"}

\* POST /webhooks/exa
ExaWebhook(S, P, secret, rawBody, signature, type, w, I, stale) ==
    IF ~verifyExaSignature(secret, rawBody, signature)
    THEN Out(S, P, Resp("webhook", 401, w, 0, 0))
    ELSE IF type = "webset.items.created" THEN WebhookItemsCreated(S, P, w, I, stale)
    ELSE IF type = "webset.idle" THEN WebhookIdle(S, P, w)
    ELSE IF type = "webset.enrichment.completed" THEN WebhookEnrichmentCompleted(S, P, w)
    ELSE Out(S, P, Resp("webhook", 200, w, 0, 0))

\* an event as it arrives at a deployment without a webhook secret
Delivered(S, P, type, w, I, stale) ==
    ExaWebhook(S, P, NoSecret, "b1", NoSignature, type, w, I, stale)

\* ------------------------------------------------------------ state machine
NoResp == Resp("none", 0, 0, 0, 0)

InitStore ==
    rebuildLeadsetFeed(
        [leadsets |-> [l \in LeadsetIds |-> [status |-> "idle", websetId |-> 0]],
         runs |-> <<>>, items |-> <<>>, jobs |-> <<>>, version |-> 1, feed |-> <<>>])

Init ==
    /\ leadsets = InitStore.leadsets
    /\ runs = <<>>
    /\ items = <<>>
    /\ jobs = <<>>
    /\ version = 1
    /\ feed = InitStore.feed
    /\ websets = <<>>
    /\ pitems = <<>>
    /\ penr = <<>>
    /\ resp = Last(NoResp)
    /\ procs = <<>>

\* the model's bounds on what a request may leave behind
WithinBounds(out, B) ==
    /\ Len(out.S.runs) <= B.runs
    /\ Len(out.P.websets) <= B.runs
    /\ Len(out.S.jobs) <= B.jobs
    /\ out.S.version <= B.version
    /\ \A r \in 1..Len(out.S.runs) :
          out.S.runs[r].found <= B.count /\ out.S.runs[r].enriched <= B.count

\* a request handled from its first to its last statement
Do(out, B) ==
    /\ WithinBounds(out, B)
    /\ leadsets' = out.S.leadsets
    /\ runs' = out.S.runs
    /\ items' = out.S.items
    /\ jobs' = out.S.jobs
    /\ version' = out.S.version
    /\ feed' = out.S.feed
    /\ websets' = out.P.websets
    /\ pitems' = out.P.pitems
    /\ penr' = out.P.penr
    /\ resp' = Last(out.resp)
    /\ UNCHANGED procs

\* the client names a run together with the run's own leadset
LeadsetOfRun(r) == runs[r].leadsetId

StartRunAction(B, modes) ==
    \E l \in LeadsetIds, mode \in modes, force \in BOOLEAN :
        /\ force => mode = "new"
        /\ Do(StartRun(Store, Prov, l, mode, force, TRUE, TRUE), B)

PollSyncAction(B) ==
    \E r \in 1..Len(runs) : Do(PollSync(Store, Prov, LeadsetOfRun(r), r), B)

SyncItemsAction(B) ==
    \E l \in LeadsetIds, w \in 0..Len(websets) : Do(SyncItems(Store, Prov, l, w), B)

CancelAction(B) ==
    \E r \in 1..Len(runs), callOk \in BOOLEAN :
        Do(Cancel(Store, Prov, LeadsetOfRun(r), r, callOk), B)

RequestEnrichmentAction(B) ==
    \E r \in 1..Len(runs), fields \in RequestChoices :
        Do(RequestEnrichment(Store, Prov, LeadsetOfRun(r), r, fields, TRUE), B)

EnrichmentStatusAction(B) ==
    \E e \in 1..Len(jobs), createRejects \in BOOLEAN :
        Do(EnrichmentStatus(Store, Prov, jobs[e].leadsetId, jobs[e].runId, e, createRejects), B)

\* an event for a session is delivered any number of times, at any time
\* after the provider emitted it; an items-created event carries one item
WebhookItemsCreatedAction(B) ==
    \E w \in 1..Len(websets), stale \in BOOLEAN :
        \E i \in listWebsetItems(Prov, w) :
            Do(Delivered(Store, Prov, "webset.items.created", w, {i}, stale), B)

WebhookIdleAction(B) ==
    \E w \in 1..Len(websets) :
        /\ websets[w].idleSeen
        /\ Do(Delivered(Store, Prov, "webset.idle", w, {}, FALSE), B)

WebhookEnrichmentCompletedAction(B) ==
    \E w \in 1..Len(websets) :
        /\ \E k \in 1..Len(penr) : penr[k].w = w /\ penr[k].done
        /\ Do(Delivered(Store, Prov, "webset.enrichment.completed", w, {}, FALSE), B)

\* the id of a provider session this deployment never created
ForeignSession == 99

\* an event of any kind for a session of another deployment
WebhookForeignSessionAction(B) ==
    \E type \in EventTypes :
        Do(Delivered(Store, Prov, type, ForeignSession, {}, FALSE), B)

\* ---- the provider's own progress
ProviderDiscover(B) ==
    \E w \in 1..Len(websets), res \in {Found, Null} :
        LET i == Cardinality(DOMAIN pitems) + 1
        IN /\ i <= B.items
           /\ WebsetLive(Prov, w) /\ websets[w].status = "running"
           /\ pitems' = Put(pitems, i, [w |-> w, res |-> res])
           /\ UNCHANGED <<leadsets, runs, items, jobs, version, feed, websets, penr, resp, procs>>

ProviderStatus ==
    \E w \in 1..Len(websets), st \in ProviderStatuses :
        /\ WebsetLive(Prov, w)
        /\ \/ websets[w].status = "running" /\ st \in {"idle", "paused"}
           \/ websets[w].status = "paused" /\ st = "running"
        /\ websets' = [websets EXCEPT ![w].status = st,
                                      ![w].idleSeen = @ \/ st = "idle"]
        /\ UNCHANGED <<leadsets, runs, items, jobs, version, feed, pitems, penr, resp, procs>>

ProviderCompleteEnrichment ==
    \E k \in 1..Len(penr) :
        /\ ~penr[k].done /\ WebsetLive(Prov, penr[k].w)
        /\ penr' = [penr EXCEPT ![k].done = TRUE]
        /\ UNCHANGED <<leadsets, runs, items, jobs, version, feed, websets, pitems, resp, procs>>

Next ==
    \/ StartRunAction(MainBounds, RunModes)
    \/ PollSyncAction(MainBounds)
    \/ SyncItemsAction(MainBounds)
    \/ CancelAction(MainBounds)
    \/ RequestEnrichmentAction(MainBounds)
    \/ EnrichmentStatusAction(MainBounds)
    \/ WebhookItemsCreatedAction(MainBounds)
    \/ WebhookIdleAction(MainBounds)
    \/ WebhookEnrichmentCompletedAction(MainBounds)
    \/ WebhookForeignSessionAction(MainBounds)
    \/ ProviderDiscover(MainBounds)
    \/ ProviderStatus
    \/ ProviderCompleteEnrichment

Spec == Init /\ [][Next]_vars

\* one run of one leadset taken through discovery and enrichment
NextEnrich ==
    \/ StartRunAction(EnrichBounds, {"new"})
    \/ PollSyncAction(EnrichBounds)
    \/ RequestEnrichmentAction(EnrichBounds)
    \/ EnrichmentStatusAction(EnrichBounds)
    \/ WebhookItemsCreatedAction(EnrichBounds)
    \/ WebhookEnrichmentCompletedAction(EnrichBounds)
    \/ ProviderDiscover(EnrichBounds)
    \/ ProviderCompleteEnrichment

SpecEnrich == Init /\ [][NextEnrich]_vars

\* ------------------------------------------------ job-status poll, await by await
\* GET /leadsets/:leadsetId/runs/:runId/enrichment/:enrichmentId as the
\* event loop runs it: every await hands control to whatever request is
\* ready next.  procs[p] is the p-th request: where it stands (pc) and what
\* it holds in its local variables.
Idle(e) == [e |-> e, pc |-> "done", jobStatus |-> Null, runFound |-> 0, runEnriched |-> 0,
            I |-> {}, fb |-> EmptyMap, todo |-> {}, count |-> 0]

At(p, pc) == p \in DOMAIN procs /\ procs[p].pc = pc

PollIds == 1..MaxPolls

\* requestStatuses.map(req => req.field)
RequestedFields(P, job) == {P.penr[k].field : k \in job.requests}

StoreUnchanged == UNCHANGED <<leadsets, runs, items, jobs, version, feed>>
ProviderUnchanged == UNCHANGED <<websets, pitems, penr>>

\* enrichmentDoc = await sdk.getFirebaseData('enrichments', enrichmentId)
PollBegin ==
    \E e \in 1..Len(jobs) :
        /\ Len(procs) < MaxPolls
        /\ procs' = Append(procs, [Idle(e) EXCEPT !.pc = "readRun",
                                                  !.jobStatus = jobs[e].status])
        /\ StoreUnchanged /\ ProviderUnchanged /\ UNCHANGED resp

\* run = await sdk.getFirebaseData('runs', runId)
PollReadRun ==
    \E p \in PollIds :
        /\ At(p, "readRun")
        /\ LET run == runs[jobs[procs[p].e].runId]
           IN procs' = [procs EXCEPT ![p].pc = "getStatuses",
                                     ![p].runFound = run.found,
                                     ![p].runEnriched = run.enriched]
        /\ StoreUnchanged /\ ProviderUnchanged /\ UNCHANGED resp

\* requestStatuses = await Promise.all(getEnrichment...), then the checks of
\* the job status read at the start: a completed or processing job, or
\* requests still pending, end the request with its response
PollGetStatuses ==
    \E p \in PollIds :
        /\ At(p, "getStatuses")
        /\ LET e == procs[p].e
               overallStatus == OverallStatus(Prov, jobs[e])
           IN IF procs[p].jobStatus \in {"completed", "processing"}
                 \/ overallStatus # "completed"
              THEN /\ procs' = [procs EXCEPT ![p] = Idle(e)]
                   /\ resp' = Last(Resp("enrichmentStatus", 200, jobs[e].websetId,
                                        jobs[e].runId, e))
              ELSE /\ procs' = [procs EXCEPT ![p].pc = "markProcessing"]
                   /\ UNCHANGED resp
        /\ StoreUnchanged /\ ProviderUnchanged

\* await sdk.updateFirebaseData('enrichments', enrichmentId, { status: 'processing' })
PollMarkProcessing ==
    \E p \in PollIds :
        /\ At(p, "markProcessing")
        /\ jobs' = [jobs EXCEPT ![procs[p].e].status = "processing"]
        /\ procs' = [procs EXCEPT ![p].pc = "listItems"]
        /\ UNCHANGED <<leadsets, runs, items, version, feed, resp>>
        /\ ProviderUnchanged

\* exaItems = await listWebsetItems(websetId, ...), all pages; a call that
\* fails (callOk = FALSE: the network, a 5xx) is answered 500 by the
\* handler's catch
PollListItems ==
    \E p \in PollIds, callOk \in BOOLEAN :
        /\ At(p, "listItems")
        /\ LET e == procs[p].e
               w == jobs[e].websetId
           IN IF WebsetLive(Prov, w) /\ callOk
              THEN /\ procs' = [procs EXCEPT ![p].pc = "scan",
                                             ![p].I = listWebsetItems(Prov, w)]
                   /\ UNCHANGED resp
              ELSE /\ procs' = [procs EXCEPT ![p] = Idle(e)]
                   /\ resp' = Last(Resp("enrichmentStatus", 500, w, jobs[e].runId, e))
        /\ StoreUnchanged /\ ProviderUnchanged

\* allDocs = await sdk.searchFirebaseData({}, 10000); the loop then skips,
\* without an await, every item that has no field to update
PollScan ==
    \E p \in PollIds :
        /\ At(p, "scan")
        /\ LET job == jobs[procs[p].e]
           IN procs' = [procs EXCEPT
                ![p].pc = "items",
                ![p].fb = ItemsOfRunAndLeadset(items, job.runId, job.leadsetId),
                ![p].todo = {i \in procs[p].I :
                               DOMAIN FieldUpdates(Prov, i, RequestedFields(Prov, job)) # {}}]
        /\ StoreUnchanged /\ ProviderUnchanged /\ UNCHANGED resp

\* one turn of the loop: the create or update of the next item
PollItem ==
    \E p \in PollIds, createRejects \in BOOLEAN :
        /\ At(p, "items") /\ procs[p].todo # {}
        /\ LET job == jobs[procs[p].e]
               i == Min(procs[p].todo)
               requested == RequestedFields(Prov, job)
           IN /\ items' = ReconcileItem(Prov, items, procs[p].fb, i, job.runId,
                                        job.leadsetId, requested, createRejects)
              /\ procs' = [procs EXCEPT
                    ![p].todo = @ \ {i},
                    ![p].count = IF Reconciled(Prov, items, procs[p].fb, i, requested,
                                               createRejects)
                                 THEN @ + 1 ELSE @]
        /\ UNCHANGED <<leadsets, runs, jobs, version, feed, resp>>
        /\ ProviderUnchanged

\* await sdk.updateFirebaseData('enrichments', enrichmentId,
\*                              { status: 'completed', enrichedCount })
PollWriteCompleted ==
    \E p \in PollIds :
        /\ At(p, "items") /\ procs[p].todo = {}
        /\ jobs' = [jobs EXCEPT ![procs[p].e].status = "completed",
                                ![procs[p].e].enrichedCount = procs[p].count]
        /\ procs' = [procs EXCEPT ![p].pc = "writeRun"]
        /\ UNCHANGED <<leadsets, runs, items, version, feed, resp>>
        /\ ProviderUnchanged

\* await sdk.updateFirebaseData('runs', runId, { status: 'idle', counters:
\*   { ...run.counters, enriched: (run.counters?.enriched || 0) + enrichedCount } })
\* with the run read at the start of the request
PollWriteRun ==
    \E p \in PollIds :
        /\ At(p, "writeRun")
        /\ procs[p].runEnriched + procs[p].count <= MaxCount
        /\ runs' = [runs EXCEPT
                ![jobs[procs[p].e].runId].status = "idle",
                ![jobs[procs[p].e].runId].found = procs[p].runFound,
                ![jobs[procs[p].e].runId].enriched = procs[p].runEnriched + procs[p].count]
        /\ procs' = [procs EXCEPT ![p].pc = "writeLeadset"]
        /\ UNCHANGED <<leadsets, items, jobs, version, feed, resp>>
        /\ ProviderUnchanged

\* await sdk.updateFirebaseData('leadsets', leadsetId, { status: 'idle' })
PollWriteLeadset ==
    \E p \in PollIds :
        /\ At(p, "writeLeadset")
        /\ leadsets' = SetLeadsetStatus(Store, jobs[procs[p].e].leadsetId, "idle").leadsets
        /\ procs' = [procs EXCEPT ![p].pc = "finish"]
        /\ UNCHANGED <<runs, items, jobs, version, feed, resp>>
        /\ ProviderUnchanged

\* the feed rebuilt from a fresh scan, the docStatus update and the response
PollFinish ==
    \E p \in PollIds :
        /\ At(p, "finish")
        /\ version < PollVersion
        /\ LET e == procs[p].e
               S1 == updateDocStatus(rebuildLeadsetFeed(Store))
           IN /\ feed' = S1.feed
              /\ version' = S1.version
              /\ procs' = [procs EXCEPT ![p] = Idle(e)]
              /\ resp' = Last(Resp("enrichmentStatus", 200, jobs[e].websetId,
                                   jobs[e].runId, e))
        /\ UNCHANGED <<leadsets, runs, items, jobs>>
        /\ ProviderUnchanged

\* one run and one job, with job-status polls that overlap
NextPoll ==
    \/ StartRunAction(PollBounds, {"new"})
    \/ RequestEnrichmentAction(PollBounds)
    \/ ProviderDiscover(PollBounds)
    \/ ProviderCompleteEnrichment
    \/ PollBegin
    \/ PollReadRun
    \/ PollGetStatuses
    \/ PollMarkProcessing
    \/ PollListItems
    \/ PollScan
    \/ PollItem
    \/ PollWriteCompleted
    \/ PollWriteRun
    \/ PollWriteLeadset
    \/ PollFinish

SpecPoll == Init /\ [][NextPoll]_vars

\* the client polls again once a poll was answered
PollAgain ==
    \E p \in PollIds :
        /\ At(p, "done")
        /\ procs' = [procs EXCEPT ![p] = [Idle(procs[p].e) EXCEPT
                                            !.pc = "readRun",
                                            !.jobStatus = jobs[procs[p].e].status]]
        /\ StoreUnchanged /\ ProviderUnchanged /\ UNCHANGED resp

\* the steps of a poll in flight
PollSteps ==
    \/ PollReadRun
    \/ PollGetStatuses
    \/ PollMarkProcessing
    \/ PollListItems
    \/ PollScan
    \/ PollItem
    \/ PollWriteCompleted
    \/ PollWriteRun
    \/ PollWriteLeadset
    \/ PollFinish

NextPollFair == NextPoll \/ PollAgain

\* the client keeps polling and every poll in flight goes on
SpecPollFair ==
    Init /\ [][NextPollFair]_vars /\ WF_vars(PollAgain) /\ WF_vars(PollSteps)

\* ------------------------------------------------ the field functions alone
\* enrichment.result as the resolver sees it: the first non-blank string of
\* the provider's result array, or null when there is none
ResultSamples ==
    {"jane@acme.com", "+1 415 555 0100", "2024-01", "11-50",
     "https://linkedin.com/in/jane", "High", "High: strong partnership fit",
     "Berlin, Germany", "retailer", "7", "Work Email",
     "Shows buying intent due to hiring", "Partnership intent is clear",
     "415-5550100", "influencer via linkedin dm", "Looks promising", Null}

\* the tests of Strategy 5 on those strings
\* /^(high|medium|low)(:|$)/i
IsLevel(str) == str \in {"High", "High: strong partnership fit"}
\* includes('partnership') || includes('collaborat')
MentionsPartnership(str) ==
    str \in {"High: strong partnership fit", "Partnership intent is clear"}
\* /^\d+-\d+$/ or /^\d+-\d+\+?$/
IsRange(str) == str \in {"2024-01", "11-50", "415-5550100"}
\* 'partnership intent', or 'partnership' with shows / due to / because
IsPartnershipReason(str) == str \in {"Partnership intent is clear"}
\* 'buying intent' / 'purchase intent', or 'intent' without 'partnership'
\* and with shows / due to / because
IsBuyingReason(str) == str \in {"Shows buying intent due to hiring"}
\* includes('@') && /^[^\s@]+@[^\s@]+\.[^\s@]+$/
IsEmail(str) == str \in {"jane@acme.com"}
\* /^[\d\s\-\+\(\)]+$/ and at least ten digits
IsPhone(str) == str \in {"+1 415 555 0100", "415-5550100"}
\* includes('linkedin.com/'); the same strings include 'linkedin.com'
IsLinkedIn(str) ==
    str \in {"https://linkedin.com/in/jane", "https://linkedin.com/in/jane-doe"}
\* City, Country
IsLocation(str) == str \in {"Berlin, Germany"}
\* 'linkedin dm', 'work email', 'website form', or exactly phone / email
IsChannel(str) == str \in {"Work Email", "influencer via linkedin dm"}
\* /^(retailer|distributor|...)/i
IsLeadType(str) == str \in {"retailer", "influencer via linkedin dm"}
\* /^[1-9]|10\b/ with 'overlap' / 'audience' or exactly 1..10
IsOverlapScore(str) == str \in {"7"}

\* Strategy 5: the field inferred from the content of the result
InferFromResult(result) ==
    IF result = Null THEN Null
    ELSE IF IsLevel(result)
    THEN IF MentionsPartnership(result) THEN "partnershipIntentLevel" ELSE "buyingIntent"
    ELSE IF IsRange(result) THEN "employeeCount"
    ELSE IF IsPartnershipReason(result) THEN "partnershipIntentReason"
    ELSE IF IsBuyingReason(result) THEN "buyingIntentReason"
    ELSE IF IsEmail(result) THEN "email"
    ELSE IF IsPhone(result) THEN "phone"
    ELSE IF IsLinkedIn(result) THEN "linkedinUrl"
    ELSE IF IsLocation(result) THEN "geoLocation"
    ELSE IF IsChannel(result) THEN "primaryContactChannel"
    ELSE IF IsLeadType(result) THEN "leadType"
    ELSE IF IsOverlapScore(result) THEN "audienceOverlapScore"
    ELSE Null

\* enrichment.description
DescriptionSamples ==
    {"", "ScoutField::email::Find the work email",
     "ScoutField::employeeCount::Company size band",
     "ScoutField::bogus::Find it", "Find the work email address",
     "Company Size and phone", "Find something"}

\* description.startsWith('ScoutField::') and the key that follows it
\* (null without the prefix)
PrefixKey(description) ==
    CASE description = "ScoutField::email::Find the work email" -> "email"
      [] description = "ScoutField::employeeCount::Company size band" -> "employeeCount"
      [] description = "ScoutField::bogus::Find it" -> "bogus"
      [] OTHER -> Null

\* the taxonomy keys whose key or label occurs in the description,
\* letter case aside
Mentioned(description) ==
    CASE description = "ScoutField::email::Find the work email" -> {"email"}
      [] description = "ScoutField::employeeCount::Company size band" -> {"employeeCount"}
      [] description = "Find the work email address" -> {"email"}
      [] description = "Company Size and phone" -> {"phone", "employeeCount"}
      [] OTHER -> {}

\* Strategy 4: the first key, in the order of the taxonomy, that the
\* description mentions
FirstMentioned(description) ==
    IF Mentioned(description) = {} THEN Null
    ELSE ENRICHMENT_FIELD_KEYS[Min({i \in DOMAIN ENRICHMENT_FIELD_KEYS :
                                        ENRICHMENT_FIELD_KEYS[i] \in Mentioned(description)})]

\* the resolver without the search of the description's text
extractFieldWithoutDescriptionContent(enrichment) ==
    IF enrichment.field # Null /\ enrichment.field \in ENRICHMENT_FIELDS
    THEN enrichment.field
    ELSE IF PrefixKey(enrichment.description) # Null
            /\ PrefixKey(enrichment.description) \in ENRICHMENT_FIELDS
    THEN PrefixKey(enrichment.description)
    ELSE IF enrichment.format \in ENRICHMENT_FIELDS
    THEN enrichment.format
    ELSE InferFromResult(enrichment.result)

\* extractFieldFromEnrichment: field is metadata.field (null when absent)
extractFieldFromEnrichment(enrichment) ==
    IF enrichment.field # Null /\ enrichment.field \in ENRICHMENT_FIELDS
    THEN enrichment.field
    ELSE IF PrefixKey(enrichment.description) # Null
            /\ PrefixKey(enrichment.description) \in ENRICHMENT_FIELDS
    THEN PrefixKey(enrichment.description)
    ELSE IF enrichment.format \in ENRICHMENT_FIELDS
    THEN enrichment.format
    ELSE IF FirstMentioned(enrichment.description) # Null
    THEN FirstMentioned(enrichment.description)
    ELSE InferFromResult(enrichment.result)

\* one turn of the loop over exaItem.enrichments; acc holds fieldUpdates,
\* matchedFields and linkedinUrl, and writes lists the keys in the order
\* the loop assigned them a value
PassEnrichment(acc, enrichment, requestedFieldSet) ==
    LET isLinkedInField == enrichment.field = "linkedinUrl"
        urlResult == enrichment.result
        found == extractFieldFromEnrichment(enrichment)
        fieldKey ==
            IF found = Null \/ found \notin acc.matchedFields THEN found
            ELSE IF /\ found = "buyingIntent"
                    /\ "partnershipIntentLevel" \in requestedFieldSet
                    /\ "partnershipIntentLevel" \notin acc.matchedFields
            THEN "partnershipIntentLevel"
            ELSE IF /\ found = "partnershipIntentLevel"
                    /\ "buyingIntent" \in requestedFieldSet
                    /\ "buyingIntent" \notin acc.matchedFields
            THEN "buyingIntent"
            ELSE Null
    IN IF /\ enrichment.format = "url" \/ isLinkedInField
          /\ enrichment.result # Null
          /\ isLinkedInField \/ IsLinkedIn(urlResult)
       THEN [acc EXCEPT !.linkedinUrl = urlResult,
                        !.matchedFields = @ \cup {"linkedinUrl"},
                        !.writes = Append(@, "linkedinUrl")]
       ELSE IF fieldKey = Null \/ fieldKey \notin requestedFieldSet THEN acc
       ELSE IF extractEnrichmentValue(enrichment.result, fieldKey) = Null THEN acc
       ELSE [acc EXCEPT
               !.fieldUpdates = Put(@, fieldKey,
                                    extractEnrichmentValue(enrichment.result, fieldKey)),
               !.matchedFields = @ \cup {fieldKey},
               !.writes = Append(@, fieldKey)]

RECURSIVE PassLoop(_, _, _)
PassLoop(acc, enrichmentsArray, requestedFieldSet) ==
    IF enrichmentsArray = <<>> THEN acc
    ELSE PassLoop(PassEnrichment(acc, Head(enrichmentsArray), requestedFieldSet),
                  Tail(enrichmentsArray), requestedFieldSet)

\* the loop's variables before its first turn
PassStart == [fieldUpdates |-> EmptyMap, matchedFields |-> {}, linkedinUrl |-> Null,
              writes |-> <<>>]

\* fieldUpdates of one provider item after the loop
ResolutionPass(enrichmentsArray, requestedFieldSet) ==
    LET acc == PassLoop(PassStart, enrichmentsArray, requestedFieldSet)
    IN IF acc.linkedinUrl # Null
       THEN Put(acc.fieldUpdates, "linkedinUrl", acc.linkedinUrl)
       ELSE acc.fieldUpdates

\* the enrichments the functions are applied to
FieldTags == {Null, "email", "phone", "linkedinUrl", "buyingIntent", "bogus"}
Formats == {"email", "phone", "url", "text", "options"}
EnrichmentInputs ==
    [field : FieldTags, description : DescriptionSamples, format : Formats,
     result : ResultSamples]

\* leadset.enrichment_fields
LeadsetFieldNames ==
    {"contact_email", "contact_phone", "linkedin_url", "has_linkedin_messaging",
     "lead_type", "unknown_field"}
LeadsetFieldInputs ==
    {NotAnArray} \cup {Arr(q) : q \in SeqsUpTo(LeadsetFieldNames, MaxFields)}

\* the field sets of a job the pass is run for
PassRequested ==
    {{"email", "phone"},
     {"phone", "linkedinUrl", "employeeCount", "buyingIntent", "partnershipIntentLevel"}}

\* items with two enrichments: tagged ones as this program's jobs make them
TaggedEnrichments ==
    {[field |-> "buyingIntent", description |-> "", format |-> "options", result |-> "High"],
     [field |-> "buyingIntent", description |-> "", format |-> "options", result |-> Null],
     [field |-> "phone", description |-> "", format |-> "phone",
      result |-> "+1 415 555 0100"],
     [field |-> "linkedinUrl", description |-> "", format |-> "url",
      result |-> "https://linkedin.com/in/jane"],
     [field |-> "linkedinUrl", description |-> "", format |-> "url",
      result |-> "https://linkedin.com/in/jane-doe"],
     [field |-> Null, description |-> "Find something", format |-> "options",
      result |-> "High"]}

\* ---- the feed rebuilt from a scan
\* lsRuns.sort((a, b) => new Date(b.createdAt) - new Date(a.createdAt)) with
\* the comparison turned round: oldest first
RECURSIVE SortedRunsOldestFirst(_)
SortedRunsOldestFirst(lsRuns) ==
    IF lsRuns = <<>> THEN <<>>
    ELSE LET rest == SortedRunsOldestFirst(SubSeq(lsRuns, 1, Len(lsRuns) - 1))
             run == lsRuns[Len(lsRuns)]
             Before(x) == x.createdAt <= run.createdAt
             After(x) == x.createdAt > run.createdAt
         IN SelectSeq(rest, Before) \o <<run>> \o SelectSeq(rest, After)

\* lsRuns.sort((a, b) => new Date(b.createdAt) - new Date(a.createdAt)):
\* newest first, and runs created at the same instant stay in scan order
\* (Array.prototype.sort is stable)
RECURSIVE SortedRuns(_)
SortedRuns(lsRuns) ==
    IF lsRuns = <<>> THEN <<>>
    ELSE LET rest == SortedRuns(SubSeq(lsRuns, 1, Len(lsRuns) - 1))
             run == lsRuns[Len(lsRuns)]
             Before(x) == x.createdAt >= run.createdAt
             After(x) == x.createdAt < run.createdAt
         IN SelectSeq(rest, Before) \o <<run>> \o SelectSeq(rest, After)

\* leadsetDetails[leadset.id] of the feed
LeadsetDetail(docs, l) ==
    LET Mine(doc) == doc.leadsetId = l
        sortedRuns == SortedRuns(SelectSeq(docs.runs, Mine))
    IN [leadset |-> l,
        run |-> IF sortedRuns = <<>> THEN <<>> ELSE <<Head(sortedRuns)>>,
        items |-> SelectSeq(docs.items, Mine)]

\* the feed with the time of the rebuild on the run it shows
FeedPayloadStampedRun(docs, now) ==
    [updatedAt |-> now,
     leadsets |-> docs.leadsets,
     leadsetDetails |->
        [l \in Range(docs.leadsets) |->
            [LeadsetDetail(docs, l) EXCEPT
                !.run = IF @ = <<>> THEN @
                        ELSE <<[id |-> @[1].id, leadsetId |-> l,
                                createdAt |-> @[1].createdAt, seenAt |-> now]>>]],
     counts |-> [leadsets |-> Len(docs.leadsets), runs |-> Len(docs.runs),
                 items |-> Len(docs.items)]]

\* feedPayload, built from the documents of one scan at the instant now
FeedPayload(docs, now) ==
    [updatedAt |-> now,
     leadsets |-> docs.leadsets,
     leadsetDetails |-> [l \in Range(docs.leadsets) |-> LeadsetDetail(docs, l)],
     counts |-> [leadsets |-> Len(docs.leadsets), runs |-> Len(docs.runs),
                 items |-> Len(docs.items)]]

\* the scans: the store returns documents in id order; a run's id is its
\* place among the runs
FeedLeadsets == {"L1", "L2"}
RunScans ==
    {[i \in 1..Len(q) |-> [id |-> i, leadsetId |-> q[i].leadsetId,
                           createdAt |-> q[i].createdAt]] :
        q \in SeqsUpTo([leadsetId : FeedLeadsets, createdAt : 1..MaxCreatedAt],
                       MaxFeedRuns)}
FeedScans ==
    [leadsets : {<<"L1">>, <<"L1", "L2">>},
     runs : RunScans,
     items : {<<>>, <<[id |-> 1, leadsetId |-> "L1"]>>}]

\* the texts the intent normalisation is given
IntentSamples ==
    {"High", "high", "Medium interest", "low", "medium to high", "highly unlikely, low",
     "actively evaluating vendors right now", "strong fit", "ready but low budget",
     "considering options", "slowly considering", "no signal", ""}

\* the texts the head-count normalisation is given
EmployeeSamples ==
    {ToString(n) : n \in EmployeeCounts}
    \cup {"501-1000", "1-10", "about 37 people", "1,200 employees", "10-50 employees",
          "25001+", "over 9000 staff", "unknown size", ""}

\* the fields a value is extracted for
ValueFields == {"buyingIntent", "partnershipIntentLevel", "employeeCount", "email"}

\* ---- the item a provider item's values are written to
MaxMatchItems == 2

\* the URLs of provider items; the empty text: no URL
Urls == {"", "https://acme.com", "https://acme.com/", "https://beta.io"}

\* normalizeUrlForMatch: the href without a trailing slash, lower-cased
normalizeUrlForMatch(url) == IF url = "https://acme.com/" THEN "https://acme.com" ELSE url

\* firebaseItemsByUrl: one entry per sourceUrl in the order of first
\* insertion, each holding the last item of the scan with that sourceUrl
firebaseItemsByUrl(firebaseItemsArray) ==
    LET n == Len(firebaseItemsArray)
        firstOf == {i \in 1..n :
                      /\ firebaseItemsArray[i].sourceUrl # ""
                      /\ \A j \in 1..(i - 1) :
                            firebaseItemsArray[j].sourceUrl # firebaseItemsArray[i].sourceUrl}
        lastWith(u) == CHOOSE i \in 1..n :
                          /\ firebaseItemsArray[i].sourceUrl = u
                          /\ \A j \in (i + 1)..n : firebaseItemsArray[j].sourceUrl # u
    IN [i \in firstOf |-> firebaseItemsArray[lastWith(firebaseItemsArray[i].sourceUrl)]]

\* targetItemId: the first entry of firebaseItemsByUrl whose URL matches,
\* else the item with the provider item's id, else the id of the item
\* that is created
targetItemId(firebaseItemsArray, exaItem) ==
    LET byUrl == firebaseItemsByUrl(firebaseItemsArray)
        matches == {i \in DOMAIN byUrl :
                      normalizeUrlForMatch(byUrl[i].sourceUrl)
                          = normalizeUrlForMatch(exaItem.url)}
    IN IF exaItem.url # "" /\ matches # {}
       THEN byUrl[Min(matches)].itemId
       ELSE exaItem.id

\* the provider's items (id and URL), the ones of them already stored, in
\* scan order with the URL they were stored with, and the item of the turn
MatchInputs ==
    {[kind |-> "match", pc |-> "in",
      firebaseItemsArray |-> [i \in 1..stored |-> [itemId |-> i, sourceUrl |-> urls[i]]],
      exaItem |-> [id |-> x, url |-> urls[x]]] :
        urls \in [1..MaxMatchItems -> Urls], stored \in 0..MaxMatchItems,
        x \in 1..MaxMatchItems}

PureInputs ==
    {[kind |-> "intent", pc |-> "in", value |-> v] : v \in IntentSamples}
    \cup {[kind |-> "feed", pc |-> "in", docs |-> d, now |-> 1] : d \in FeedScans}
    \cup MatchInputs
    \cup {[kind |-> "employeeCount", pc |-> "in", value |-> v] : v \in EmployeeSamples}
    \cup {[kind |-> "value", pc |-> "in", result |-> v, fieldKey |-> f] :
            v \in IntentSamples \cup EmployeeSamples \cup {"N/A", "unknown", Null},
            f \in ValueFields}
    \cup
    {[kind |-> "request", pc |-> "in", fields |-> f, raw |-> a] :
        f \in RequestInputs, a \in LeadsetFieldInputs}
    \cup {[kind |-> "enrichment", pc |-> "in", enrichment |-> e] : e \in EnrichmentInputs}
    \cup {[kind |-> "pass", pc |-> "in", enrichments |-> <<e>>, requested |-> q] :
            e \in EnrichmentInputs, q \in PassRequested}
    \cup {[kind |-> "pass", pc |-> "in", enrichments |-> <<d, e>>, requested |-> q] :
            d \in TaggedEnrichments, e \in TaggedEnrichments, q \in PassRequested}

InitPure ==
    /\ leadsets = InitStore.leadsets
    /\ runs = <<>>
    /\ items = <<>>
    /\ jobs = <<>>
    /\ version = 1
    /\ feed = InitStore.feed
    /\ websets = <<>>
    /\ pitems = <<>>
    /\ penr = <<>>
    /\ resp = Last(NoResp)
    /\ \E inp \in PureInputs : procs = <<inp>>

Applied(p, out) ==
    /\ procs[p].pc = "in"
    /\ procs' = [procs EXCEPT ![p] = [kind |-> procs[p].kind, pc |-> "done",
                                      in |-> procs[p], out |-> out]]
    /\ StoreUnchanged
    /\ ProviderUnchanged
    /\ UNCHANGED resp

NormalizeStep ==
    \E p \in DOMAIN procs :
        /\ procs[p].kind = "request"
        /\ Applied(p, normalizeRequestedFields(procs[p].fields,
                          getAllowedEnrichmentFieldsForLeadset(procs[p].raw)))

ResolveStep ==
    \E p \in DOMAIN procs :
        /\ procs[p].kind = "enrichment"
        /\ Applied(p, extractFieldFromEnrichment(procs[p].enrichment))

PassStep ==
    \E p \in DOMAIN procs :
        /\ procs[p].kind = "pass"
        /\ Applied(p, ResolutionPass(procs[p].enrichments, procs[p].requested))

MatchStep ==
    \E p \in DOMAIN procs :
        /\ procs[p].kind = "match"
        /\ Applied(p, targetItemId(procs[p].firebaseItemsArray, procs[p].exaItem))

NormalizeIntentStep ==
    \E p \in DOMAIN procs :
        /\ procs[p].kind = "intent"
        /\ Applied(p, normalizeBuyingIntent(procs[p].value))

NormalizeEmployeeCountStep ==
    \E p \in DOMAIN procs :
        /\ procs[p].kind = "employeeCount"
        /\ Applied(p, normalizeEmployeeCount(procs[p].value))

ExtractValueStep ==
    \E p \in DOMAIN procs :
        /\ procs[p].kind = "value"
        /\ Applied(p, extractEnrichmentValue(procs[p].result, procs[p].fieldKey))

\* rebuildLeadsetFeed over a scan, and once more over the same documents
\* at the same or a later instant
FeedRebuildStep ==
    \E p \in DOMAIN procs :
        /\ procs[p].kind = "feed"
        /\ procs[p].pc = "in"
        /\ procs' = [procs EXCEPT ![p] =
                        [kind |-> "feed", pc |-> "once", in |-> procs[p],
                         first |-> FeedPayload(procs[p].docs, procs[p].now)]]
        /\ StoreUnchanged
        /\ ProviderUnchanged
        /\ UNCHANGED resp

FeedRebuildAgainStep ==
    \E p \in DOMAIN procs, elapsed \in {0, 1} :
        /\ procs[p].kind = "feed"
        /\ procs[p].pc = "once"
        /\ procs' = [procs EXCEPT ![p] =
                        [kind |-> "feed", pc |-> "done", in |-> procs[p].in,
                         first |-> procs[p].first,
                         out |-> FeedPayload(procs[p].in.docs,
                                             procs[p].in.now + elapsed)]]
        /\ StoreUnchanged
        /\ ProviderUnchanged
        /\ UNCHANGED resp

NextPure ==
    \/ FeedRebuildStep
    \/ FeedRebuildAgainStep
    \/ NormalizeIntentStep
    \/ NormalizeEmployeeCountStep
    \/ ExtractValueStep
    \/ NormalizeStep
    \/ ResolveStep
    \/ PassStep
    \/ MatchStep

SpecPure == InitPure /\ [][NextPure]_vars

\* ------------------------------------------------------------ factory reset
\* DELETE /seed, step 3: the delete-and-verify loop, taken from one store
\* call to the next. The store is the set of ids of its documents; stuck
\* are the documents whose delete is always rejected. Other requests go on
\* writing while the loop is suspended.
MaxDocs == 2
DocIds == 1..MaxDocs

\* const maxIterations = 100
maxIterations == 100

\* the test that ends the loop when a round made no progress, left out
SameCountIgnored(verifyLength, currentLength) == FALSE

\* verifyDocs.length === currentDocs.length
SameCount(verifyLength, currentLength) == verifyLength = currentLength

InitReset ==
    /\ leadsets = InitStore.leadsets
    /\ runs = <<>>
    /\ items = <<>>
    /\ jobs = <<>>
    /\ version = 1
    /\ feed = InitStore.feed
    /\ websets = <<>>
    /\ pitems = <<>>
    /\ penr = <<>>
    /\ resp = Last(NoResp)
    /\ \E docs \in SUBSET DocIds : \E stuck \in SUBSET docs :
          procs = <<[kind |-> "reset", pc |-> "while", docs |-> docs, stuck |-> stuck,
                     batchNumber |-> 0, hasMoreDocs |-> TRUE, currentDocs |-> {},
                     failedCount |-> 0, stopped |-> "no"]>>

ResetTo(next) ==
    /\ procs' = <<next>>
    /\ StoreUnchanged
    /\ ProviderUnchanged
    /\ UNCHANGED resp

\* while (hasMoreDocs && batchNumber < maxIterations): the condition fails
ResetExit ==
    /\ procs[1].pc = "while"
    /\ ~(procs[1].hasMoreDocs /\ procs[1].batchNumber < maxIterations)
    /\ ResetTo([procs[1] EXCEPT !.pc = "done"])

\* batchNumber++; currentDocs = search; an empty scan ends the loop
ResetScan ==
    /\ procs[1].pc = "while"
    /\ procs[1].hasMoreDocs /\ procs[1].batchNumber < maxIterations
    /\ ResetTo([procs[1] EXCEPT
                  !.batchNumber = @ + 1,
                  !.currentDocs = procs[1].docs,
                  !.hasMoreDocs = procs[1].docs # {},
                  !.stopped = IF procs[1].docs = {} THEN "empty" ELSE @,
                  !.pc = IF procs[1].docs = {} THEN "while" ELSE "delete"])

\* Promise.allSettled over the deletes: each one succeeds or is rejected,
\* a stuck document's always is; the rejected ones are counted
ResetDelete ==
    /\ procs[1].pc = "delete"
    /\ \E deleted \in SUBSET (procs[1].currentDocs \ procs[1].stuck) :
          ResetTo([procs[1] EXCEPT
                     !.docs = @ \ deleted,
                     !.failedCount = Cardinality(procs[1].currentDocs) - Cardinality(deleted),
                     !.pc = "verify"])

\* verifyDocs = search: empty, or as many as before the round, ends the loop
ResetVerify ==
    /\ procs[1].pc = "verify"
    /\ LET verifyLength == Cardinality(procs[1].docs)
           currentLength == Cardinality(procs[1].currentDocs)
       IN ResetTo([procs[1] EXCEPT
                     !.hasMoreDocs = ~(verifyLength = 0
                                        \/ SameCount(verifyLength, currentLength)),
                     !.stopped = IF verifyLength = 0 THEN "verifiedEmpty"
                                 ELSE IF SameCount(verifyLength, currentLength)
                                 THEN "sameCount" ELSE @,
                     !.pc = "while"])

\* another request creates a document while the loop is suspended
ResetOtherWrite ==
    /\ procs[1].pc # "done"
    /\ \E d \in DocIds \ procs[1].docs :
          ResetTo([procs[1] EXCEPT !.docs = @ \cup {d}])

ResetStep == ResetExit \/ ResetScan \/ ResetDelete \/ ResetVerify

NextReset == ResetStep \/ ResetOtherWrite

\* the handler is a running request: its next step is eventually taken
SpecReset == InitReset /\ [][NextReset]_vars /\ WF_vars(ResetStep)

\* ------------------------------------------------------------ startRun, split
\* POST /leadsets/:leadsetId/run with mode 'new' and no force, taken from
\* one store or provider call to the next; several requests for the same
\* leadset are in flight together
MaxStarts == 2

StartIds == 1..MaxStarts

\* the client sends the request
StartBegin ==
    \E l \in LeadsetIds :
        /\ Len(procs) < MaxStarts
        /\ procs' = Append(procs, [kind |-> "start", pc |-> "readLeadset", l |-> l,
                                   leadsetWebsetId |-> 0, targetWebsetId |-> 0, code |-> 0])
        /\ StoreUnchanged /\ ProviderUnchanged /\ UNCHANGED resp

\* leadset = await sdk.getFirebaseData('leadsets', leadsetId)
StartReadLeadset ==
    \E p \in StartIds :
        /\ At(p, "readLeadset")
        /\ procs' = [procs EXCEPT ![p].pc = "scan",
                                  ![p].leadsetWebsetId = leadsets[procs[p].l].websetId]
        /\ StoreUnchanged /\ ProviderUnchanged /\ UNCHANGED resp

\* allDocs = await sdk.searchFirebaseData(...), then the conflict test
StartScan ==
    \E p \in StartIds :
        /\ At(p, "scan")
        /\ LET latestRun == LatestRun(runs, procs[p].l)
               existingWebsetId ==
                   IF latestRun # 0 /\ runs[latestRun].websetId # 0
                   THEN runs[latestRun].websetId ELSE procs[p].leadsetWebsetId
           IN IF IsConflict(existingWebsetId, "new", FALSE)
              THEN /\ procs' = [procs EXCEPT ![p].pc = "done", ![p].code = 409]
                   /\ resp' = Last(Resp("startRun", 409, existingWebsetId, latestRun, 0))
              ELSE /\ procs' = [procs EXCEPT ![p].pc = "createWebset"]
                   /\ UNCHANGED resp
        /\ StoreUnchanged /\ ProviderUnchanged

\* webset = await createWebset(...)
StartCreateWebset ==
    \E p \in StartIds :
        /\ At(p, "createWebset")
        /\ websets' = Append(websets, [status |-> "running", deleted |-> FALSE,
                                       idleSeen |-> FALSE, canceled |-> {},
                                       searches |-> {}])
        /\ procs' = [procs EXCEPT ![p].pc = "createRun",
                                  ![p].targetWebsetId = Len(websets) + 1]
        /\ StoreUnchanged /\ UNCHANGED <<pitems, penr, resp>>

\* await sdk.createFirebaseData('runs', runId, runDoc)
StartCreateRun ==
    \E p \in StartIds :
        /\ At(p, "createRun")
        /\ runs' = Append(runs, NewRun(procs[p].l, procs[p].targetWebsetId, "new", 0))
        /\ procs' = [procs EXCEPT ![p].pc = "updateLeadset"]
        /\ UNCHANGED <<leadsets, items, jobs, version, feed, resp>>
        /\ ProviderUnchanged

\* await sdk.updateFirebaseData('leadsets', leadsetId, {...})
StartUpdateLeadset ==
    \E p \in StartIds :
        /\ At(p, "updateLeadset")
        /\ leadsets' = [leadsets EXCEPT ![procs[p].l] =
                            [status |-> "running", websetId |-> procs[p].targetWebsetId]]
        /\ procs' = [procs EXCEPT ![p].pc = "finish"]
        /\ UNCHANGED <<runs, items, jobs, version, feed, resp>>
        /\ ProviderUnchanged

\* updateDocStatus, rebuildLeadsetFeed, res.status(201)
StartFinish ==
    \E p \in StartIds :
        /\ At(p, "finish")
        /\ LET S1 == rebuildLeadsetFeed(updateDocStatus(Store))
           IN /\ feed' = S1.feed
              /\ version' = S1.version
        /\ procs' = [procs EXCEPT ![p].pc = "done", ![p].code = 201]
        /\ resp' = Last(Resp("startRun", 201, procs[p].targetWebsetId, 0, 0))
        /\ UNCHANGED <<leadsets, runs, items, jobs>>
        /\ ProviderUnchanged

NextStart ==
    \/ StartBegin
    \/ StartReadLeadset
    \/ StartScan
    \/ StartCreateWebset
    \/ StartCreateRun
    \/ StartUpdateLeadset
    \/ StartFinish

SpecStart == Init /\ [][NextStart]_vars

\* ================================================================ properties
RunIds == 1..Len(runs)

\* the statuses of a run that is still at work, and those of one that ended
NonTerminal(st) == st \in {"running", "enriching"}

TerminalStatuses == {"canceled", "completed", "failed"}

HasNonTerminalRun(l) ==
    \E r \in RunIds : runs[r].leadsetId = l /\ NonTerminal(runs[r].status)

\* ---------------------------------------------------------------- C1
\* C1: in every reachable state each leadset has at most one run whose
\* status is running or enriching.
AtMostOneNonTerminalRun ==
    \A l \in LeadsetIds :
        Cardinality({r \in RunIds : runs[r].leadsetId = l /\ NonTerminal(runs[r].status)}) <= 1

\* ---------------------------------------------------------------- C2
\* C2: on a leadset that has a non-terminal run, startRun with mode new and
\* force false answers 409 with the session id and the id of the leadset's
\* latest run and the number of stored items of that run, and leaves the
\* store and the provider exactly as they were, whether or not the
\* provider's calls would have succeeded.
ConflictLeavesEverythingUnchanged ==
    \A l \in LeadsetIds :
        HasNonTerminalRun(l) =>
            \A delOk \in BOOLEAN, callOk \in BOOLEAN :
                LET out == StartRun(Store, Prov, l, "new", FALSE, delOk, callOk)
                    latest == LatestRun(runs, l)
                IN /\ out.resp = Resp("startRun", 409, runs[latest].websetId, latest,
                                      Cardinality(ItemsOfRun(items, latest)))
                   /\ runs[latest].websetId # 0
                   /\ out.S = Store
                   /\ out.P = Prov

\* a conflict was answered while a run of the leadset was running or enriching
ConflictAnswered ==
    /\ resp = [op |-> "startRun", code |-> 409]
    /\ \E l \in LeadsetIds : HasNonTerminalRun(l)

\* ---------------------------------------------------------------- C3
\* the documents of the store other than the change-version counter
Documents(S) == [leadsets |-> S.leadsets, runs |-> S.runs, items |-> S.items,
                 jobs |-> S.jobs, feed |-> S.feed]

\* the requests a client can repeat: a poll of a run, a manual sync of a session
SyncRequests ==
    {[kind |-> "poll", l |-> runs[r].leadsetId, r |-> r, w |-> 0] : r \in RunIds}
    \cup {[kind |-> "manual", l |-> l, r |-> 0, w |-> w] :
            l \in LeadsetIds, w \in 0..Len(websets)}

SyncOnce(S, P, q) ==
    IF q.kind = "poll" THEN PollSync(S, P, q.l, q.r) ELSE SyncItems(S, P, q.l, q.w)

KnownFields(P, i, stale) ==
    (DOMAIN transformExaItem(P, i, 0, "L1", stale).ef)
    \cup (DOMAIN transformExaItem(P, i, 0, "L1", FALSE).ef)

\* C4: an items-created event and a poll-driven sync over the same items,
\* in either order, end with one record for the item that holds the union
\* of the fields known to the two.
WebhookPollConverge ==
    \A r \in RunIds :
        \A i \in listWebsetItems(Prov, runs[r].websetId), stale \in BOOLEAN :
            WebsetLive(Prov, runs[r].websetId) =>
                LET w == runs[r].websetId
                    l == runs[r].leadsetId
                    a == WebhookItemsCreated(Store, Prov, w, {i}, stale)
                    ab == PollSync(a.S, a.P, l, r)
                    b == PollSync(Store, Prov, l, r)
                    ba == WebhookItemsCreated(b.S, b.P, w, {i}, stale)
                IN \A o \in {ab, ba} :
                      /\ i \in DOMAIN o.S.items
                      /\ KnownFields(Prov, i, stale) \subseteq DOMAIN o.S.items[i].ef

\* ---------------------------------------------------------------- C5
\* C5: a write to an existing item keeps every enrichment field the item
\* has: the field stays, and its value is unchanged or replaced by another
\* value, never removed and never null.
EnrichmentFieldsKept ==
    [][\A i \in (DOMAIN items) \cap (DOMAIN items') :
          \A f \in DOMAIN items[i].ef :
              /\ f \in DOMAIN items'[i].ef
              /\ items[i].ef[f] # Null => items'[i].ef[f] # Null]_vars

\* ---------------------------------------------------------------- C6
\* C6: once a run is canceled, completed or failed its status changes only
\* from completed to enriching, by requestEnrichment.
TerminalRunKeepsStatus ==
    [][\A r \in RunIds :
          runs[r].status \in TerminalStatuses =>
              \/ runs'[r].status = runs[r].status
              \/ /\ runs[r].status = "completed"
                 /\ runs'[r].status = "enriching"
                 /\ resp'.op = "enrich"]_vars

RunStatusFollowsMachine ==
    [][\A r \in RunIds :
          /\ (runs'[r].status = "enriching" /\ runs[r].status # "enriching")
                => runs[r].status = "completed"
          /\ (runs'[r].status = "completed" /\ runs[r].status # "completed")
                => runs[r].status = "running"]_vars

\* ---------------------------------------------------------------- C9
\* C9: whatever the interleaving of the polls of one job, the reconciliation
\* pass is run by at most one of them, so the run's enriched counter is
\* raised for the job once: it never exceeds what one pass counted.
EnrichedCountedOnce ==
    \A e \in 1..Len(jobs) :
        runs[jobs[e].runId].enriched
            <= Cardinality(listWebsetItems(Prov, jobs[e].websetId))

\* ---------------------------------------------------------------- C10
JobStatusRank(st) == IF st = "pending" THEN 0 ELSE IF st = "processing" THEN 1 ELSE 2

\* C10: the status of a job only moves forward along pending, processing,
\* completed; completed is never left.
JobStatusMovesForward ==
    [][\A e \in 1..Len(jobs) :
          JobStatusRank(jobs'[e].status) >= JobStatusRank(jobs[e].status)]_vars

CancelMakesOneCancellation ==
    \A r \in RunIds :
        LET run == runs[r]
            calls == CancelCalls(run)
            out == Cancel(Store, Prov, run.leadsetId, r, TRUE)
            target == IF run.mode = "extend"
                      THEN [kind |-> "search", searchId |-> run.searchId]
                      ELSE [kind |-> "webset", searchId |-> 0]
        IN /\ Cardinality(calls) = 1
           /\ \A c \in calls : c.w = run.websetId /\ c.kind = target.kind
                               /\ c.searchId = target.searchId
           /\ run.mode = "extend" => run.searchId = r
           /\ WebsetLive(Prov, run.websetId) =>
                out.P.websets[run.websetId].canceled
                    = websets[run.websetId].canceled \cup {target}
           /\ \A w \in 1..Len(websets) :
                w # run.websetId => out.P.websets[w] = websets[w]

\* an extend run was canceled and the session holds the cancellation of
\* that run's sub-search, and none of the whole session
SubSearchCanceled ==
    /\ resp = [op |-> "cancel", code |-> 200]
    /\ \E r \in RunIds :
          /\ runs[r].mode = "extend" /\ runs[r].status = "canceled"
          /\ websets[runs[r].websetId].canceled
                = {[kind |-> "search", searchId |-> runs[r].searchId]}

\* ---------------------------------------------------------------- C13
\* C13: a startRun with mode replace that returns success has deleted the
\* provider session of the prior run and every item of the prior run, and
\* its new run refers to another session.
ReplaceDeletesPriorSession ==
    \A l \in LeadsetIds :
        \A delOk \in BOOLEAN, callOk \in BOOLEAN :
            LET prior == LatestRun(runs, l)
                out == StartRun(Store, Prov, l, "replace", FALSE, delOk, callOk)
            IN (prior # 0 /\ out.resp.code = 201) =>
                  /\ out.P.websets[runs[prior].websetId].deleted
                  /\ ItemsOfRun(out.S.items, prior) = {}
                  /\ out.S.runs[out.resp.runId].websetId # runs[prior].websetId

\* ---------------------------------------------------------------- C14
\* the session id startRun finds for a leadset: the latest run's, else the
\* leadset's own (0: none)
ExistingSession(l) ==
    IF LatestRun(runs, l) # 0 /\ runs[LatestRun(runs, l)].websetId # 0
    THEN runs[LatestRun(runs, l)].websetId
    ELSE leadsets[l].websetId

\* C14: startRun with mode extend on a leadset without a session answers
\* 400 and changes neither store nor provider; on a leadset with a session
\* a successful one creates no session, adds one search to that session and
\* stores the search's id and the session's id on the new run.
ExtendNeedsExistingSession ==
    \A l \in LeadsetIds :
        \A delOk \in BOOLEAN, callOk \in BOOLEAN :
            LET w == ExistingSession(l)
                out == StartRun(Store, Prov, l, "extend", FALSE, delOk, callOk)
                new == out.S.runs[out.resp.runId]
            IN /\ w = 0 => /\ out.resp = Resp("startRun", 400, 0, 0, 0)
                           /\ out.S = Store
                           /\ out.P = Prov
               /\ (w # 0 /\ out.resp.code = 201) =>
                     /\ Len(out.P.websets) = Len(websets)
                     /\ new.websetId = w
                     /\ new.searchId # 0
                     /\ new.searchId \notin websets[w].searches
                     /\ out.P.websets[w].searches = websets[w].searches \cup {new.searchId}
               /\ (w # 0 /\ out.resp.code # 201) => out.S = Store /\ out.P = Prov

\* an extend was refused on a leadset that never had a session
ExtendRefused ==
    /\ resp = [op |-> "startRun", code |-> 400]
    /\ \E l \in LeadsetIds : ExistingSession(l) = 0
    /\ runs = <<>> /\ websets = <<>>

\* an extend run stands on the session of an earlier run, with its search
ExtendAppended ==
    /\ resp = [op |-> "startRun", code |-> 201]
    /\ \E r \in RunIds :
          /\ runs[r].mode = "extend" /\ r = Len(runs)
          /\ runs[r].searchId \in websets[runs[r].websetId].searches
          /\ \E q \in 1..(r - 1) : runs[q].websetId = runs[r].websetId

\* ---------------------------------------------------------------- C15
\* C15: every successful startRun adds exactly one run, with status running,
\* counters zero and the target session id, changes no other run, and
\* leaves the leadset running with the same session id.
StartRunPersistsRunningRun ==
    \A l \in LeadsetIds, mode \in RunModes :
        \A force \in BOOLEAN, delOk \in BOOLEAN, callOk \in BOOLEAN :
            LET out == StartRun(Store, Prov, l, mode, force, delOk, callOk)
                id == out.resp.runId
                new == out.S.runs[id]
            IN out.resp.code = 201 =>
                  /\ Len(out.S.runs) = Len(runs) + 1
                  /\ id = Len(runs) + 1
                  /\ SubSeq(out.S.runs, 1, Len(runs)) = runs
                  /\ new.status = "running" /\ new.found = 0 /\ new.enriched = 0
                  /\ new.leadsetId = l /\ new.mode = mode
                  /\ new.websetId = out.resp.websetId /\ new.websetId # 0
                  /\ WebsetLive(out.P, new.websetId)
                  /\ out.S.leadsets[l].status = "running"
                  /\ out.S.leadsets[l].websetId = new.websetId

\* a run was just started: the newest run is running with zero counters
\* and the leadset mirrors it
RunJustStarted ==
    /\ resp = [op |-> "startRun", code |-> 201]
    /\ Len(runs) > 0
    /\ LET new == runs[Len(runs)]
       IN /\ new.status = "running" /\ new.found = 0 /\ new.enriched = 0
          /\ leadsets[new.leadsetId] = [status |-> "running", websetId |-> new.websetId]

\* ---------------------------------------------------------------- C16
\* the request bodies the handler is tried with at every state: the ones
\* clients send, no list, an empty one, a repeated key, a key to be
\* trimmed, a key the leadset does not allow, keys the taxonomy lacks
EnrichRequests ==
    RequestChoices \cup
    {NotAnArray, Arr(<<>>), Arr(<<"phone", "phone">>), Arr(<<" email ", "leadType">>),
     Arr(<<"bogus">>), Arr(<<"email", "bogus">>)}

\* a field list names a key (blanks aside) that the taxonomy does not have
NamesUnknownKey(fields) ==
    /\ fields.isArray
    /\ \E i \in 1..Len(fields.elems) :
          trim(fields.elems[i]) # "" /\ trim(fields.elems[i]) \notin ENRICHMENT_FIELDS

\* C16: requestEnrichment with a field list naming a key outside the
\* taxonomy answers 400, makes no provider request and stores no job.
InvalidFieldsRejected ==
    \A r \in RunIds, fields \in EnrichRequests :
        \A callOk \in BOOLEAN :
            LET out == RequestEnrichment(Store, Prov, LeadsetOfRun(r), r, fields, callOk)
            IN NamesUnknownKey(fields) =>
                  /\ out.resp.code = 400
                  /\ out.P.penr = penr
                  /\ out.S.jobs = jobs

\* ---------------------------------------------------------------- C18
\* C18: a successful requestEnrichment makes one provider request per
\* resolved field key, in order and on the run's session, and stores one
\* job with status pending whose requests are exactly those, one per key.
OneRequestPerResolvedField ==
    \A r \in RunIds, fields \in EnrichRequests :
        \A callOk \in BOOLEAN :
            LET l == LeadsetOfRun(r)
                out == RequestEnrichment(Store, Prov, l, r, fields, callOk)
                resolved == normalizeRequestedFields(fields,
                                getAllowedEnrichmentFieldsForLeadset(enrichment_fields[l]))
                job == out.S.jobs[Len(out.S.jobs)]
                made == (Len(penr) + 1)..Len(out.P.penr)
            IN out.resp.code = 202 =>
                  /\ Len(out.P.penr) = Len(penr) + Len(resolved)
                  /\ SubSeq(out.P.penr, 1, Len(penr)) = penr
                  /\ \A i \in 1..Len(resolved) :
                        out.P.penr[Len(penr) + i] =
                            [w |-> runs[r].websetId, field |-> resolved[i], done |-> FALSE]
                  /\ Len(out.S.jobs) = Len(jobs) + 1
                  /\ SubSeq(out.S.jobs, 1, Len(jobs)) = jobs
                  /\ job.status = "pending"
                  /\ job.requests = made
                  /\ job.fields = Range(resolved)
                  /\ \A f \in Range(resolved) :
                        Cardinality({k \in job.requests : out.P.penr[k].field = f}) = 1

\* a job for two fields was just stored, pending, with one request each
TwoFieldJobPending ==
    /\ resp = [op |-> "enrich", code |-> 202]
    /\ \E e \in 1..Len(jobs) :
          /\ jobs[e].status = "pending"
          /\ jobs[e].fields = {"email", "linkedinUrl"}
          /\ Cardinality(jobs[e].requests) = 2
          /\ {penr[k].field : k \in jobs[e].requests} = jobs[e].fields

\* ---------------------------------------------------------------- C17
\* the keys a field list names, blanks trimmed and blank entries dropped
RequestedKeys(fields) ==
    IF fields.isArray
    THEN {trim(fields.elems[i]) : i \in 1..Len(fields.elems)} \ {""}
    ELSE {}

ExplicitRequest(fields) == fields.isArray /\ Len(fields.elems) > 0

Defaults == Range(DEFAULT_ENRICHMENT_FIELDS)

\* the steps of the rule after its first one
RuleFallbacks(explicit, A) ==
    IF ~explicit /\ A # {} THEN A
    ELSE IF Defaults \cap A # {} THEN Defaults \cap A
    ELSE IF A # {} THEN A
    ELSE Defaults

\* the rule as stated: requested and allowed, else the fallbacks
PriorityRule(R, explicit, A) ==
    IF R \cap A # {} THEN R \cap A ELSE RuleFallbacks(explicit, A)

\* the rule with an empty allowlist allowing every taxonomy key
PriorityRuleEmptyAllowsAll(R, explicit, A) ==
    LET wanted == IF A = {} THEN R \cap ENRICHMENT_FIELDS ELSE R \cap A
    IN IF wanted # {} THEN wanted ELSE RuleFallbacks(explicit, A)

\* the resolved list of a finished application to a request
NormalizedOf(p) == procs[p].kind = "request" /\ procs[p].pc = "done"

AllowlistOf(p) == Range(getAllowedEnrichmentFieldsForLeadset(procs[p].in.raw))

\* C17 (as stated): the resolved field set is the priority rule's result
\* for the requested keys and the leadset's allowlist.
ResolvedByStatedRule ==
    \A p \in DOMAIN procs :
        NormalizedOf(p) =>
            Range(procs[p].out) =
                PriorityRule(RequestedKeys(procs[p].in.fields),
                             ExplicitRequest(procs[p].in.fields), AllowlistOf(p))

\* C17 (amended): the resolved field set is the priority rule's result
\* where an empty allowlist allows every taxonomy key; it is never empty,
\* holds only taxonomy keys, and the list repeats none.
ResolvedByRuleEmptyAllowsAll ==
    \A p \in DOMAIN procs :
        NormalizedOf(p) =>
            /\ Range(procs[p].out) =
                  PriorityRuleEmptyAllowsAll(RequestedKeys(procs[p].in.fields),
                        ExplicitRequest(procs[p].in.fields), AllowlistOf(p))
            /\ procs[p].out # <<>>
            /\ Range(procs[p].out) \subseteq ENRICHMENT_FIELDS
            /\ Cardinality(Range(procs[p].out)) = Len(procs[p].out)

\* a request for a non-default key on a leadset without allowlist kept it
UnrestrictedRequestKept ==
    \E p \in DOMAIN procs :
        /\ NormalizedOf(p)
        /\ AllowlistOf(p) = {}
        /\ procs[p].in.fields = Arr(<<"linkedinUrl">>)
        /\ procs[p].out = <<"linkedinUrl">>

\* ---------------------------------------------------------------- C19
\* C19: an enrichment tagged with a taxonomy key resolves to that key in
\* the resolver, and in the pass over an item whose enrichments are all
\* tagged every stored field is the tag of one of them and every requested
\* tag is stored.
TagTrusted ==
    \A p \in DOMAIN procs :
        procs[p].pc = "done" =>
            /\ (procs[p].kind = "enrichment"
                    /\ procs[p].in.enrichment.field \in ENRICHMENT_FIELDS) =>
                  procs[p].out = procs[p].in.enrichment.field
            /\ procs[p].kind = "pass" =>
                  LET es == procs[p].in.enrichments
                      tags == {es[i].field : i \in 1..Len(es)}
                  IN tags \subseteq ENRICHMENT_FIELDS =>
                        /\ DOMAIN procs[p].out \subseteq tags
                        /\ tags \cap procs[p].in.requested \subseteq DOMAIN procs[p].out

\* the resolver's half of C19 alone
TagTrustedByResolver ==
    \A p \in DOMAIN procs :
        (/\ procs[p].pc = "done"
         /\ procs[p].kind = "enrichment"
         /\ procs[p].in.enrichment.field \in ENRICHMENT_FIELDS) =>
            procs[p].out = procs[p].in.enrichment.field

\* ---------------------------------------------------------------- C20
ResolvedOf(p) == procs[p].kind = "enrichment" /\ procs[p].pc = "done"

TagOf(e) == IF e.field \in ENRICHMENT_FIELDS THEN e.field ELSE Null
PrefixOf(e) ==
    IF PrefixKey(e.description) \in ENRICHMENT_FIELDS THEN PrefixKey(e.description) ELSE Null
FormatOf(e) == IF e.format \in ENRICHMENT_FIELDS THEN e.format ELSE Null

\* no content test accepts the result
NoShape(result) ==
    \/ result = Null
    \/ ~(\/ IsLevel(result) \/ IsRange(result) \/ IsPartnershipReason(result)
         \/ IsBuyingReason(result) \/ IsEmail(result) \/ IsPhone(result)
         \/ IsLinkedIn(result) \/ IsLocation(result) \/ IsChannel(result)
         \/ IsLeadType(result) \/ IsOverlapScore(result))

\* C20 (as stated): the resolver's answer is the tag, else the key of the
\* description prefix, else the format, else what the content of the
\* result suggests, and nothing else is consulted.
FourStepCascade ==
    \A p \in DOMAIN procs :
        ResolvedOf(p) =>
            LET e == procs[p].in.enrichment
            IN procs[p].out =
                  IF TagOf(e) # Null THEN TagOf(e)
                  ELSE IF PrefixOf(e) # Null THEN PrefixOf(e)
                  ELSE IF FormatOf(e) # Null THEN FormatOf(e)
                  ELSE InferFromResult(e.result)

\* C20 (amended): the resolver's answer is the tag, else the key of the
\* description prefix, else the format, else the first taxonomy key the
\* description's text mentions, else what the content of the result
\* suggests; a result no step matches resolves to null.
CascadeWithDescriptionText ==
    \A p \in DOMAIN procs :
        ResolvedOf(p) =>
            LET e == procs[p].in.enrichment
                out == procs[p].out
            IN IF TagOf(e) # Null THEN out = TagOf(e)
               ELSE IF PrefixOf(e) # Null THEN out = PrefixOf(e)
               ELSE IF FormatOf(e) # Null THEN out = FormatOf(e)
               ELSE IF Mentioned(e.description) # {}
               THEN /\ out \in Mentioned(e.description)
                    /\ \A i, j \in DOMAIN ENRICHMENT_FIELD_KEYS :
                          (/\ ENRICHMENT_FIELD_KEYS[i] = out
                           /\ ENRICHMENT_FIELD_KEYS[j] \in Mentioned(e.description)) => i <= j
               ELSE /\ out = InferFromResult(e.result)
                    /\ NoShape(e.result) => out = Null

\* an untagged text enrichment whose description speaks of the email and
\* whose result is a range was resolved to email
DescriptionTextResolved ==
    \E p \in DOMAIN procs :
        /\ ResolvedOf(p)
        /\ procs[p].in.enrichment =
              [field |-> Null, description |-> "Find the work email address",
               format |-> "text", result |-> "11-50"]
        /\ procs[p].out = "email"

\* ---------------------------------------------------------------- C21
\* the content tests in the order the specification lists them
ReferenceShape(result) ==
    IF result = Null THEN Null
    ELSE IF IsEmail(result) THEN "email"
    ELSE IF IsPhone(result) THEN "phone"
    ELSE IF IsLinkedIn(result) THEN "linkedinUrl"
    ELSE IF IsLevel(result)
    THEN IF MentionsPartnership(result) THEN "partnershipIntentLevel" ELSE "buyingIntent"
    ELSE IF IsRange(result) THEN "employeeCount"
    ELSE IF IsLocation(result) THEN "geoLocation"
    ELSE IF IsLeadType(result) THEN "leadType"
    ELSE IF IsOverlapScore(result) THEN "audienceOverlapScore"
    ELSE IF IsChannel(result) THEN "primaryContactChannel"
    ELSE Null

\* the resolver reaches the content of the result: no tag, no prefix, no
\* format that is a key, nothing mentioned in the description
Untagged(e) ==
    /\ TagOf(e) = Null /\ PrefixOf(e) = Null /\ FormatOf(e) = Null
    /\ Mentioned(e.description) = {}

\* C21: for an untagged result the resolver returns the key that the
\* content tests give when evaluated in the specified order.
ContentShapeInReferenceOrder ==
    \A p \in DOMAIN procs :
        (ResolvedOf(p) /\ Untagged(procs[p].in.enrichment)) =>
            procs[p].out = ReferenceShape(procs[p].in.enrichment.result)

\* the same for the results that are a phone number or a range
PhoneBeforeRange ==
    \A p \in DOMAIN procs :
        (/\ ResolvedOf(p) /\ Untagged(procs[p].in.enrichment)
         /\ IsPhone(procs[p].in.enrichment.result)) => procs[p].out = "phone"

\* ---------------------------------------------------------------- C22
PassDone(p) == procs[p].kind = "pass" /\ procs[p].pc = "done"

\* the keys the loop over the item's enrichments assigned, in order
WritesOf(p) ==
    PassLoop(PassStart, procs[p].in.enrichments, procs[p].in.requested).writes

\* an untagged result that content alone resolves to buyingIntent
LevelOnly(e) == Untagged(e) /\ InferFromResult(e.result) = "buyingIntent"

\* two untagged level results of one item, both intent keys requested
TwoLevels(p) ==
    /\ Len(procs[p].in.enrichments) = 2
    /\ LevelOnly(procs[p].in.enrichments[1])
    /\ LevelOnly(procs[p].in.enrichments[2])
    /\ {"buyingIntent", "partnershipIntentLevel"} \subseteq procs[p].in.requested

\* the reassignment itself: two such results go to buyingIntent and
\* partnershipIntentLevel in that order, and no key but linkedinUrl is
\* assigned twice
ReassignedToSibling ==
    \A p \in DOMAIN procs :
        PassDone(p) =>
            /\ TwoLevels(p) => WritesOf(p) = <<"buyingIntent", "partnershipIntentLevel">>
            /\ \A i, j \in 1..Len(WritesOf(p)) :
                  (WritesOf(p)[i] = WritesOf(p)[j] /\ WritesOf(p)[i] # "linkedinUrl") => i = j

\* C22: two High/Medium/Low results of one item with both intent keys
\* requested resolve to buyingIntent and partnershipIntentLevel in that
\* order, and no key is assigned from two results of the same item.
NoKeyAssignedTwice ==
    \A p \in DOMAIN procs :
        PassDone(p) =>
            /\ TwoLevels(p) => WritesOf(p) = <<"buyingIntent", "partnershipIntentLevel">>
            /\ \A i, j \in 1..Len(WritesOf(p)) : WritesOf(p)[i] = WritesOf(p)[j] => i = j

\* a pass met two level results and both intent keys were requested
TwoLevelsResolved == \E p \in DOMAIN procs : PassDone(p) /\ TwoLevels(p)

\* ---------------------------------------------------------------- C23
\* the buckets of the specification: upper boundaries and labels
BucketBounds == <<10, 50, 200, 500, 1000, 5000, 10000, 25000>>
BucketLabels ==
    <<"1-10", "11-50", "51-200", "201-500", "501-1000", "1001-5000", "5001-10000",
      "10001-25000", "25001+">>

\* the first bucket whose upper boundary is not below n, else the last
BucketIndex(n) ==
    IF \E i \in DOMAIN BucketBounds : n <= BucketBounds[i]
    THEN Min({i \in DOMAIN BucketBounds : n <= BucketBounds[i]})
    ELSE Len(BucketLabels)

\* the label's place among the buckets
LabelIndex(label) == CHOOSE i \in DOMAIN BucketLabels : BucketLabels[i] = label

\* C23: a value of the form N-M is returned unchanged, any other value
\* with a digit is put into the bucket of its first integer, a value
\* without digit gives null; the bucket does not decrease when the integer
\* grows and every integer has exactly one bucket.
EmployeeCountBucketed ==
    \A p \in DOMAIN procs :
        (procs[p].kind = "employeeCount" /\ procs[p].pc = "done") =>
            LET v == procs[p].in.value
                out == procs[p].out
            IN /\ IF IsRangeForm(v) THEN out = v
                  ELSE IF FirstInteger(v) = NoInteger THEN out = Null
                  ELSE out = BucketLabels[BucketIndex(FirstInteger(v))]
               /\ \A n \in EmployeeCounts :
                     Cardinality({i \in DOMAIN BucketLabels :
                                     BucketLabels[i] = Bucket(n)}) = 1
               /\ \A n, m \in EmployeeCounts :
                     n <= m => LabelIndex(Bucket(n)) <= LabelIndex(Bucket(m))

\* the value "37" was put into the bucket 11-50
ThirtySevenBucketed ==
    \E p \in DOMAIN procs :
        /\ procs[p].kind = "employeeCount" /\ procs[p].pc = "done"
        /\ procs[p].in.value = "37"
        /\ procs[p].out = "11-50"

\* ---------------------------------------------------------------- C24
\* the level the priority rule gives a text
LevelByPriority(text) ==
    IF HasHigh(text) THEN "high"
    ELSE IF HasMedium(text) THEN "medium"
    ELSE IF HasLow(text) THEN "low"
    ELSE IF HasUrgency(text) THEN "high"
    ELSE IF HasExploration(text) THEN "medium"
    ELSE "low"

\* a result that is a text and not one of the "not found" patterns
RealText(result) == result # Null /\ result # "" /\ ~IsNotFoundText(result)

\* the intent normalisation alone follows the priority rule
IntentNormalizedByPriority ==
    \A p \in DOMAIN procs :
        (procs[p].kind = "intent" /\ procs[p].pc = "done" /\ procs[p].in.value # "") =>
            procs[p].out = LevelByPriority(procs[p].in.value)

\* C24: every non-empty intent text is normalised to high, medium or low
\* by the priority rule, and the value extracted for buyingIntent and for
\* partnershipIntentLevel is that normalised level.
IntentNormalizedForBothLevels ==
    \A p \in DOMAIN procs :
        procs[p].pc = "done" =>
            /\ (procs[p].kind = "intent" /\ procs[p].in.value # "") =>
                  procs[p].out = LevelByPriority(procs[p].in.value)
            /\ (/\ procs[p].kind = "value"
                /\ procs[p].in.fieldKey \in {"buyingIntent", "partnershipIntentLevel"}
                /\ RealText(procs[p].in.result)) =>
                  procs[p].out = LevelByPriority(procs[p].in.result)

\* ---------------------------------------------------------------- C25
FeedDone(p) == procs[p].kind = "feed" /\ procs[p].pc = "done"

\* the runs of leadset l in the scan
RunsOf(docs, l) == {docs.runs[i] : i \in {j \in DOMAIN docs.runs : docs.runs[j].leadsetId = l}}

WroteEntities == <<leadsets, runs, items>>' # <<leadsets, runs, items>>

\* C27: every step that writes a leadset, a run or an item leaves a
\* snapshot that is the rebuild of the store as the step left it, and
\* every step that replaces the snapshot bumps the change version.
FeedRebuiltAfterEveryWrite ==
    [][/\ WroteEntities => feed' = rebuildLeadsetFeed(Store').feed
       /\ feed' # feed => version' > version]_vars

\* ---------------------------------------------------------------- C28
\* the signature headers a request may carry: none, the digest of either
\* body, a text that is not hex, the hex of the digest's own text
SignatureSamples ==
    {NoSignature, <<"z", "z">>} \cup {createHmacHex("s1", b) : b \in RawBodies}
        \cup {<<"3", "3", "6", "1", "3", "7", "6", "6">>}

\* C28: with a secret configured, a request whose signature is not the
\* HMAC of its raw body is answered 401 and leaves the store as it was;
\* with no secret configured every request is accepted.
MismatchedSignatureRejected ==
    \A secret \in Secrets, rawBody \in RawBodies, signature \in SignatureSamples,
       type \in EventTypes, w \in 0..Len(websets) :
        LET out == ExaWebhook(Store, Prov, secret, rawBody, signature, type, w,
                              listWebsetItems(Prov, w), FALSE)
        IN /\ (secret # NoSecret /\ signature # createHmacHex(secret, rawBody)) =>
                 (out.resp.code = 401 /\ out.S = Store)
           /\ secret = NoSecret => out.resp.code = 200

\* ---------------------------------------------------------------- C29
\* no run document refers to the session
Unmapped(w) == ~\E r \in 1..Len(runs) : runs[r].websetId = w

\* C29: an event of any of the three kinds for a session that no run
\* refers to is acknowledged (200) and leaves every document of the store
\* (leadsets, runs, items, jobs, change version, feed) as it was.
UnmappedEventDropped ==
    \A type \in EventTypes, w \in (0..Len(websets)) \cup {ForeignSession},
       I \in SUBSET DOMAIN pitems, stale \in BOOLEAN :
        Unmapped(w) =>
            LET out == Delivered(Store, Prov, type, w, I, stale)
            IN out.resp.code = 200 /\ out.S = Store

\* a run was started and nothing else was written since; the last request
\* was an event, which can only have been one for a session without a run
DroppedAfterStart ==
    /\ resp = [op |-> "webhook", code |-> 200]
    /\ Len(runs) = 1 /\ version = 2
    /\ Unmapped(ForeignSession)

\* ---------------------------------------------------------------- C30
\* C30: a session-idle event delivered late or again, when the session's
\* run is already enriching or canceled, leaves the run's status as it is
\* and leaves a leadset that is enriching in that status. (The claim's
\* second half, the same final state in every order of events and polls,
\* depends on this.)
LateIdleDoesNotRegress ==
    \A w \in 1..Len(websets) :
        LET r == FirstRunOfWebset(runs, w)
            out == Delivered(Store, Prov, "webset.idle", w, {}, FALSE)
        IN (websets[w].idleSeen /\ r # 0 /\ runs[r].status \in {"enriching", "canceled"}) =>
              /\ out.S.runs[r].status = runs[r].status
              /\ leadsets[runs[r].leadsetId].status = "enriching" =>
                    out.S.leadsets[runs[r].leadsetId].status = "enriching"

\* ---------------------------------------------------------------- C31
\* C31: for a pending job whose provider requests are all completed, the
\* enrichment-completed event and the polled resolution pass leave every
\* item with the same enrichment status and the same field -> value map.
PushAndPollResolveAlike ==
    \A e \in 1..Len(jobs), createRejects \in BOOLEAN :
        LET job == jobs[e]
            polled == EnrichmentStatus(Store, Prov, job.leadsetId, job.runId, e, createRejects)
            pushed == Delivered(Store, Prov, "webset.enrichment.completed",
                                job.websetId, {}, FALSE)
        IN (/\ job.status = "pending"
            /\ OverallStatus(Prov, job) = "completed"
            /\ FirstRunOfWebset(runs, job.websetId) = job.runId) =>
                pushed.S.items = polled.S.items

\* ---------------------------------------------------------------- C32
\* a leadset id without a leadset document
MissingLeadset == "L0"

\* the request was answered not-found and changed neither store nor provider
AbortedNotFound(out) == out.resp.code = 404 /\ out.S = Store /\ out.P = Prov

\* C32: startRun with a missing leadset, cancel with a missing run,
\* requestEnrichment with a missing leadset or run, a job-status poll with
\* a missing job or run, and cancel and requestEnrichment for an existing
\* run under a missing leadset id, each answer not-found and write nothing.
NotFoundAbortsWithoutWrites ==
    LET noRun == Len(runs) + 1
        noJob == Len(jobs) + 1
    IN /\ \A mode \in RunModes, force \in BOOLEAN :
             AbortedNotFound(StartRun(Store, Prov, MissingLeadset, mode, force, TRUE, TRUE))
       /\ \A l \in LeadsetIds : AbortedNotFound(Cancel(Store, Prov, l, noRun, TRUE))
       /\ \A fields \in RequestChoices, r \in 1..noRun :
             AbortedNotFound(RequestEnrichment(Store, Prov, MissingLeadset, r, fields, TRUE))
       /\ \A fields \in RequestChoices, l \in LeadsetIds :
             AbortedNotFound(RequestEnrichment(Store, Prov, l, noRun, fields, TRUE))
       /\ \A l \in LeadsetIds, r \in 1..noRun :
             AbortedNotFound(EnrichmentStatus(Store, Prov, l, r, noJob, FALSE))
       /\ \A l \in LeadsetIds, e \in 1..Len(jobs) :
             AbortedNotFound(EnrichmentStatus(Store, Prov, l, noRun, e, FALSE))
       /\ \A r \in 1..Len(runs) :
             AbortedNotFound(Cancel(Store, Prov, MissingLeadset, r, TRUE))

\* the same without the last case (cancel of an existing run under a
\* missing leadset id)
NotFoundAbortsButCancel ==
    LET noRun == Len(runs) + 1
        noJob == Len(jobs) + 1
    IN /\ \A mode \in RunModes, force \in BOOLEAN :
             AbortedNotFound(StartRun(Store, Prov, MissingLeadset, mode, force, TRUE, TRUE))
       /\ \A l \in LeadsetIds : AbortedNotFound(Cancel(Store, Prov, l, noRun, TRUE))
       /\ \A fields \in RequestChoices, r \in 1..noRun :
             AbortedNotFound(RequestEnrichment(Store, Prov, MissingLeadset, r, fields, TRUE))
       /\ \A fields \in RequestChoices, l \in LeadsetIds :
             AbortedNotFound(RequestEnrichment(Store, Prov, l, noRun, fields, TRUE))
       /\ \A l \in LeadsetIds, r \in 1..noRun :
             AbortedNotFound(EnrichmentStatus(Store, Prov, l, r, noJob, FALSE))
       /\ \A l \in LeadsetIds, e \in 1..Len(jobs) :
             AbortedNotFound(EnrichmentStatus(Store, Prov, l, noRun, e, FALSE))

\* ---------------------------------------------------------------- C33
\* the loop is over or about to be left
ResetEnding == procs[1].pc = "done" \/ (procs[1].pc = "while" /\ ~procs[1].hasMoreDocs)

\* C33: the factory reset loop always ends; it runs at most maxIterations
\* rounds; a verification scan that finds the store empty, or as many
\* documents as the round started with, ends it; rejected deletes are
\* counted and the loop goes on to its verification.
ResetTerminates ==
    /\ <>(procs[1].pc = "done")
    /\ [](procs[1].batchNumber <= maxIterations)
    /\ []((procs[1].pc = "while" /\ procs[1].stopped # "no") => ~procs[1].hasMoreDocs)
    /\ [][(procs[1].pc = "verify" /\ procs'[1].pc = "while"
            /\ procs[1].docs = procs'[1].docs) =>
            ((Cardinality(procs[1].docs) \in {0, Cardinality(procs[1].currentDocs)})
                => ~procs'[1].hasMoreDocs)]_vars
    /\ [](procs[1].pc = "verify" =>
            procs[1].failedCount >= Cardinality(procs[1].currentDocs \cap procs[1].stuck))

\* the loop ended on a round without progress: a document that cannot be
\* deleted is still in the store
ResetStoppedOnStuck ==
    /\ procs[1].pc = "done"
    /\ procs[1].stopped = "sameCount"
    /\ procs[1].stuck # {} /\ procs[1].stuck \subseteq procs[1].docs
    /\ procs[1].failedCount > 0

\* the loop ended on the iteration cap
ResetStoppedOnCap ==
    procs[1].pc = "done" /\ procs[1].batchNumber = maxIterations /\ procs[1].hasMoreDocs

\* ---------------------------------------------------------------- C34
\* C34: the enrichment status of every stored item is none, enriching or
\* done.
ItemEnrichmentStatusInSet ==
    \A i \in DOMAIN items : items[i].est \in {"none", "enriching", "done"}

\* ---------------------------------------------------------------- C35
\* the startRun requests that were answered 201
Started == {p \in DOMAIN procs : procs[p].pc = "done" /\ procs[p].code = 201}

\* C35: of the startRun(new, no force) requests for a leadset at most one
\* creates a run and a provider session; every other one is answered with
\* the conflict.
AtMostOneStartSucceeds ==
    /\ Cardinality(Started) <= 1
    /\ Len(runs) <= 1
    /\ Len(websets) <= 1

\* ---------------------------------------------------------------- C36
\* job 1 is marked processing and no poll is in flight
ProcessingAtRest ==
    /\ Len(jobs) >= 1 /\ jobs[1].status = "processing"
    /\ \A p \in DOMAIN procs : procs[p].pc = "done"

\* C36: a job that is processing while the client keeps polling is
\* eventually completed, also after a poll failed in its pass.
ProcessingEventuallyCompleted ==
    ProcessingAtRest ~> (Len(jobs) >= 1 /\ jobs[1].status = "completed")

\* ---------------------------------------------------------------- C37
\* C37: a startRun whose provider call (create session, append search)
\* fails is answered with the failure and leaves the store and the
\* provider's sessions as they were.
FailedStartLeavesEverything ==
    \A l \in LeadsetIds, mode \in RunModes, force \in BOOLEAN, delOk \in BOOLEAN :
        LET out == StartRun(Store, Prov, l, mode, force, delOk, FALSE)
        IN out.resp.code \notin {409, 400} =>
              /\ out.resp.code = 500
              /\ out.S = Store
              /\ out.P = Prov

\* the same for the modes new and extend
FailedStartLeavesEverythingButReplace ==
    \A l \in LeadsetIds, mode \in RunModes \ {"replace"}, force \in BOOLEAN,
       delOk \in BOOLEAN :
        LET out == StartRun(Store, Prov, l, mode, force, delOk, FALSE)
        IN out.resp.code \notin {409, 400} =>
              /\ out.resp.code = 500
              /\ out.S = Store
              /\ out.P = Prov

\* ---------------------------------------------------------------- C38
\* C38: between requests a leadset is running only if its latest run is
\* running, enriching only if its latest run is enriching, and idle
\* whenever its latest run is completed, canceled or idle again after
\* enrichment.
LeadsetFollowsLatestRun ==
    \A l \in LeadsetIds :
        LET r == LatestRun(runs, l)
        IN r # 0 =>
            /\ leadsets[l].status = "running" => runs[r].status = "running"
            /\ leadsets[l].status = "enriching" => runs[r].status = "enriching"
            /\ runs[r].status \in {"completed", "canceled", "idle"} =>
                  leadsets[l].status = "idle"

\* ---------------------------------------------------------------- C39
\* C39: the values of a provider item go to the item with that item's id,
\* and the keys the pass writes are keys of the requested set.
WrittenToOwnItemAndRequestedKeys ==
    \A p \in DOMAIN procs :
        /\ (procs[p].kind = "match" /\ procs[p].pc = "done") =>
              procs[p].out = procs[p].in.exaItem.id
        /\ (procs[p].kind = "pass" /\ procs[p].pc = "done") =>
              DOMAIN procs[p].out \subseteq procs[p].in.requested

\* the first half alone
WrittenToOwnItem ==
    \A p \in DOMAIN procs :
        (procs[p].kind = "match" /\ procs[p].pc = "done") =>
            procs[p].out = procs[p].in.exaItem.id

\* the second half alone
OnlyRequestedKeysWritten ==
    \A p \in DOMAIN procs :
        (procs[p].kind = "pass" /\ procs[p].pc = "done") =>
            DOMAIN procs[p].out \subseteq procs[p].in.requested

\* ---------------------------------------------------------------- C40
\* the runs that refer to session w
RunsOfWebset(w) == {r \in 1..Len(runs) : runs[r].websetId = w}

\* C40: when several runs share a session, a session-idle event completes
\* the newest of them and leaves the older ones alone, and an
\* items-created event stores its items under the newest run's id.
EventAppliedToNewestRun ==
    \A w \in 1..Len(websets) :
        Cardinality(RunsOfWebset(w)) >= 2 =>
            LET newest == Max(RunsOfWebset(w))
                idle == Delivered(Store, Prov, "webset.idle", w, {}, FALSE)
            IN /\ idle.S.runs[newest].status = "completed"
               /\ \A r \in RunsOfWebset(w) \ {newest} : idle.S.runs[r] = runs[r]
               /\ \A i \in listWebsetItems(Prov, w), stale \in BOOLEAN :
                     Delivered(Store, Prov, "webset.items.created", w, {i}, stale)
                         .S.items[i].runId = newest

====
